---------------------------- MODULE Spec2Model ----------------------------
(***************************************************************************)
(* Model of the invoice extractor (matlukowski/fv_extractor):              *)
(*   - the validators of src/src/utils/validators.py,                      *)
(*   - the data model of src/src/models/invoice_data.py / invoice_item.py, *)
(*   - the two construction paths (GrokClient.extract_data and             *)
(*     build_updated_invoice of src/app.py),                               *)
(*   - the document normalizer of src/src/processors/image_processor.py    *)
(*     (format sniffing, PDF conversion, resizing),                        *)
(*   - the inference client of src/src/ai/grok_client.py,                  *)
(*   - the Excel export of src/src/exporters/excel_exporter.py,            *)
(*   - the password loop of src/app.py.                                    *)
(*                                                                         *)
(* A Python str is a sequence of one-character strings; a character that   *)
(* is not printable ASCII is written by its code point ("U+0663").  A      *)
(* Python bytes object is a sequence of integers 0..255.  A call's outcome *)
(* is Ok(value) or Raise(exception class).                                 *)
(***************************************************************************)
EXTENDS Integers, Sequences, FiniteSets, TLC

VARIABLES
    pc,         \* position of the operation being exercised
    arg,        \* arguments of the call being exercised
    ret,        \* outcome of the last call
    reply,      \* the model's reply after json.loads (data_dict)
    doc,        \* st.session_state.invoice_data
    widgets,    \* values of the edit widgets of display_and_edit_invoice
    updated,    \* outcome of build_updated_invoice on the last rerun
    edits,      \* number of widget edits made so far
    file,       \* the uploaded file: name, content, whether it decodes
    fileType,   \* what _detect_file_type returned for it
    requests,   \* the requests sent to the chat completions endpoint
    response,   \* what the endpoint answers: a reply text, or an API error
    cursor,     \* the read position of the file buffer
    calls,      \* number of calls of prepare_image_for_api made so far
    auths,      \* the passwords handed to pdf_document.authenticate, in order
    session     \* st.session_state: the stored encrypted PDF and its error

valVars == <<arg, ret>>

docVars == <<reply, doc, widgets, updated, edits>>

fileVars == <<file, fileType>>

netVars == <<requests, response>>

callVars == <<cursor, calls, auths, session>>

vars ==
    <<pc, arg, ret, reply, doc, widgets, updated, edits, file, fileType,
      requests, response, cursor, calls, auths, session>>

-----------------------------------------------------------------------------
(* Outcomes of a call.                                                     *)

Pending == [kind |-> "pending"]

Ok(v) == [kind |-> "ok", val |-> v]

Raise(e) == [kind |-> "raise", exc |-> e]

IsOk(r) == r.kind = "ok"

IsRaise(r) == r.kind = "raise"

-----------------------------------------------------------------------------
(* Characters.                                                             *)

AsciiDigits == {"0", "1", "2", "3", "4", "5", "6", "7", "8", "9"}

\* Decimal digits outside ASCII (Unicode category Nd): ARABIC-INDIC DIGIT
\* THREE and FULLWIDTH DIGIT ONE.
NonAsciiDigits == {"U+0663", "U+FF11"}

\* What the class \d of a Python 3 str pattern matches: every character of
\* category Nd, not only "0".."9".
IsDecimalDigit(c) == c \in AsciiDigits \cup NonAsciiDigits

\* What str.strip() strips and str.isspace() accepts: space, the ASCII
\* control whitespace, and the Unicode spaces such as NO-BREAK SPACE.
IsWhitespace(c) == c \in {" ", "\t", "\n", "\r", "U+00A0"}

DigitChars == <<"0", "1", "2", "3", "4", "5", "6", "7", "8", "9">>

\* int() of one ASCII digit.
DigitVal(c) == CHOOSE i \in 0..9 : DigitChars[i + 1] = c

-----------------------------------------------------------------------------
(* normalize_nip                                                           *)

NipLength == 10

RECURSIVE re_sub_nondigit(_)
\* re.sub(r'\D', '', nip): scan left to right, drop every character that
\* \D matches, keep the others.
re_sub_nondigit(s) ==
    IF s = <<>> THEN <<>>
    ELSE IF IsDecimalDigit(Head(s))
         THEN <<Head(s)>> \o re_sub_nondigit(Tail(s))
         ELSE re_sub_nondigit(Tail(s))

\* A slip that strips the separators only and keeps letters.
normalize_nip_keeps_letters(nip) ==
    LET digits_only == SelectSeq(nip, LAMBDA c : c \notin {"-", ".", " "})
    IN  IF Len(digits_only) # NipLength
        THEN Raise("ValueError")
        ELSE Ok(digits_only)

normalize_nip(nip) ==
    LET digits_only == re_sub_nondigit(nip)
    IN  IF Len(digits_only) # NipLength
        THEN Raise("ValueError")
        ELSE Ok(digits_only)

-----------------------------------------------------------------------------
(* normalize_invoice_number                                                *)

\* str.replace(' ', ''): removes U+0020 only.
replace_space(s) == SelectSeq(s, LAMBDA c : c # " ")

RECURSIVE lstrip(_)
lstrip(s) ==
    IF s # <<>> /\ IsWhitespace(Head(s)) THEN lstrip(Tail(s)) ELSE s

RECURSIVE rstrip(_)
rstrip(s) ==
    IF s # <<>> /\ IsWhitespace(s[Len(s)])
    THEN rstrip(SubSeq(s, 1, Len(s) - 1))
    ELSE s

\* str.strip(): whitespace of every kind, at both ends only.
strip(s) == rstrip(lstrip(s))

normalize_invoice_number(invoice_num) ==
    LET normalized == strip(replace_space(invoice_num))
    IN  IF normalized = <<>>
        THEN Raise("ValueError")
        ELSE Ok(normalized)

-----------------------------------------------------------------------------
(* parse_polish_date.  A datetime.date is [year, month, day].              *)

Date(y, m, d) == [year |-> y, month |-> m, day |-> d]

IsLeap(y) == (y % 4 = 0 /\ y % 100 # 0) \/ y % 400 = 0

DaysInMonth(y, m) ==
    IF m = 2 THEN (IF IsLeap(y) THEN 29 ELSE 28)
    ELSE IF m \in {4, 6, 9, 11} THEN 30
    ELSE 31

\* datetime.date(y, m, d): ValueError outside MINYEAR..MAXYEAR, 1..12 and
\* the month's length.
IsCalendarDate(y, m, d) ==
    /\ y >= 1 /\ y <= 9999
    /\ m >= 1 /\ m <= 12
    /\ d >= 1 /\ d <= DaysInMonth(y, m)

\* Python values that reach a validator carry their type.
PyStr(s) == [type |-> "str", value |-> s]

PyDate(d) == [type |-> "date", value |-> d]

\* isinstance(v, date)
IsDate(v) == v.type = "date"

\* The regular expressions _strptime builds for the directives:
\*   %d  (3[0-1]|[1-2]\d|0[1-9]|[1-9]| [1-9])
\*   %m  (1[0-2]|0[1-9]|[1-9])
\*   %Y  (\d\d\d\d)
MatchesDay(f) ==
    \/ Len(f) = 2 /\ f[1] = "3" /\ f[2] \in {"0", "1"}
    \/ Len(f) = 2 /\ f[1] \in {"1", "2"} /\ f[2] \in AsciiDigits
    \/ Len(f) = 2 /\ f[1] = "0" /\ f[2] \in AsciiDigits \ {"0"}
    \/ Len(f) = 1 /\ f[1] \in AsciiDigits \ {"0"}
    \/ Len(f) = 2 /\ f[1] = " " /\ f[2] \in AsciiDigits \ {"0"}

MatchesMonth(f) ==
    \/ Len(f) = 2 /\ f[1] = "1" /\ f[2] \in {"0", "1", "2"}
    \/ Len(f) = 2 /\ f[1] = "0" /\ f[2] \in AsciiDigits \ {"0"}
    \/ Len(f) = 1 /\ f[1] \in AsciiDigits \ {"0"}

MatchesYear(f) == Len(f) = 4 /\ \A i \in 1..4 : f[i] \in AsciiDigits

RECURSIVE ToInt(_)
\* int(group): decimal value; a leading space (of "%d") is skipped.
ToInt(f) ==
    IF f = <<>> THEN 0
    ELSE IF f[Len(f)] = " " THEN 0
    ELSE 10 * ToInt(SubSeq(f, 1, Len(f) - 1)) + DigitVal(f[Len(f)])

\* Positions of the separator character in the string.
SepPositions(s, sep) == { i \in 1..Len(s) : s[i] = sep }

\* The pieces of a string around its two separators.
Pieces(s, sep) ==
    LET ps == SepPositions(s, sep)
        i  == CHOOSE x \in ps : \A y \in ps : x <= y
        j  == CHOOSE x \in ps : \A y \in ps : x >= y
    IN  << SubSeq(s, 1, i - 1), SubSeq(s, i + 1, j - 1),
           SubSeq(s, j + 1, Len(s)) >>

\* datetime.strptime(s, fmt).date() for a format of three directives joined
\* by one separator character; order is the directive of each piece.  The
\* whole string must match, then the date must exist.
strptime(s, sep, order) ==
    IF Cardinality(SepPositions(s, sep)) # 2 THEN Raise("ValueError")
    ELSE
        LET p == Pieces(s, sep)
            Matches(k) ==
                IF order[k] = "d" THEN MatchesDay(p[k])
                ELSE IF order[k] = "m" THEN MatchesMonth(p[k])
                ELSE MatchesYear(p[k])
            Field(name) ==
                ToInt(p[CHOOSE k \in 1..3 : order[k] = name])
        IN  IF ~(Matches(1) /\ Matches(2) /\ Matches(3))
            THEN Raise("ValueError")
            ELSE IF ~IsCalendarDate(Field("Y"), Field("m"), Field("d"))
            THEN Raise("ValueError")
            ELSE Ok(Date(Field("Y"), Field("m"), Field("d")))

\* The formats, in the order the loop tries them.
formats ==
    << [sep |-> ".", order |-> <<"d", "m", "Y">>],
       [sep |-> "/", order |-> <<"d", "m", "Y">>],
       [sep |-> "-", order |-> <<"Y", "m", "d">>] >>

\* A slip that reads the slash format month first.
formats_month_first ==
    << [sep |-> ".", order |-> <<"d", "m", "Y">>],
       [sep |-> "/", order |-> <<"m", "d", "Y">>],
       [sep |-> "-", order |-> <<"Y", "m", "d">>] >>

RECURSIVE TryFormats(_, _)
\* for fmt in formats: try: return strptime ... except ValueError: continue
TryFormats(s, fmts) ==
    IF fmts = <<>> THEN Raise("ValueError")
    ELSE LET r == strptime(s, Head(fmts).sep, Head(fmts).order)
         IN  IF IsOk(r) THEN r ELSE TryFormats(s, Tail(fmts))

parse_polish_date_month_first(date_str) ==
    IF IsDate(date_str) THEN Ok(date_str.value)
    ELSE IF date_str.type # "str" THEN Raise("TypeError")
    ELSE TryFormats(date_str.value, formats_month_first)

parse_polish_date(date_str) ==
    IF IsDate(date_str) THEN Ok(date_str.value)
    ELSE IF date_str.type # "str" THEN Raise("TypeError")
    ELSE TryFormats(date_str.value, formats)

-----------------------------------------------------------------------------
(* The data model.  A number is held in tenths (235 is 23.5), so that the  *)
(* fractional part a float may carry is visible; an int field of a         *)
(* constructed object holds a whole number.                                *)

PyNone == [type |-> "NoneType"]

\* A key the reply does not carry.
Absent == "(absent)"

\* pydantic's int, lax mode: an integral number is taken, a number with a
\* fractional part is an error (int_from_float).
IsIntegral(x) == x % 10 = 0

\* Python's int(x): truncation towards zero.
int(x) == IF x >= 0 THEN x \div 10 ELSE -((-x) \div 10)

\* Python's float(x): the number itself.
float(x) == x

\* Truth value of "row[...] if row[...] else None": None and "" are false.
Truthy(v) == v # PyNone /\ v.value # <<>>

\* A slip that leaves out the upper bound of vat_rate (le=100).
InvoiceItem_no_vat_ceiling(raw) ==
    IF /\ Len(raw.description) >= 1
       /\ strip(raw.description) # <<>>
       /\ raw.quantity > 0
       /\ raw.unit_price_net >= 0
       /\ IsIntegral(raw.vat_rate)
       /\ raw.vat_rate >= 0
       /\ raw.total_gross >= 0
    THEN Ok([ description    |-> strip(raw.description),
              quantity       |-> raw.quantity,
              unit_price_net |-> raw.unit_price_net,
              vat_rate       |-> raw.vat_rate \div 10,
              total_gross    |-> raw.total_gross,
              category       |-> raw.category ])
    ELSE Raise("ValidationError")

\* InvoiceItem(**raw): Field constraints, then description_not_empty.
InvoiceItem(raw) ==
    IF /\ Len(raw.description) >= 1
       /\ strip(raw.description) # <<>>
       /\ raw.quantity > 0
       /\ raw.unit_price_net >= 0
       /\ IsIntegral(raw.vat_rate)
       /\ raw.vat_rate >= 0
       /\ raw.vat_rate <= 1000
       /\ raw.total_gross >= 0
    THEN Ok([ description    |-> strip(raw.description),
              quantity       |-> raw.quantity,
              unit_price_net |-> raw.unit_price_net,
              vat_rate       |-> raw.vat_rate \div 10,
              total_gross    |-> raw.total_gross,
              category       |-> raw.category ])
    ELSE Raise("ValidationError")

\* InvoiceData(**raw): Field constraints and the three field validators; any
\* failing field makes the construction raise ValidationError.
InvoiceData(raw) ==
    LET number == normalize_invoice_number(raw.invoice_number)
        issued == parse_polish_date(raw.issue_date)
        nip    == normalize_nip(raw.seller_nip)
        items  == [i \in 1..Len(raw.items) |-> InvoiceItem(raw.items[i])]
    IN  IF /\ IsOk(number)
           /\ IsOk(issued)
           /\ Len(raw.seller_name) >= 1
           /\ IsOk(nip)
           /\ Len(raw.buyer_name) >= 1
           /\ Len(raw.items) >= 1
           /\ \A i \in 1..Len(raw.items) : IsOk(items[i])
           /\ raw.total_net_sum >= 0
           /\ raw.total_gross_sum >= 0
        THEN Ok([ invoice_number  |-> number.val,
                  issue_date      |-> issued.val,
                  seller_name     |-> raw.seller_name,
                  seller_nip      |-> nip.val,
                  buyer_name      |-> raw.buyer_name,
                  items           |-> [i \in 1..Len(raw.items) |-> items[i].val],
                  total_net_sum   |-> raw.total_net_sum,
                  total_gross_sum |-> raw.total_gross_sum,
                  currency        |-> IF raw.currency = Absent
                                      THEN "PLN" ELSE raw.currency ])
        ELSE Raise("ValidationError")

\* GrokClient.extract_data from the parsed reply on: InvoiceData(**data_dict).
extract_data(data_dict) == InvoiceData(data_dict)

-----------------------------------------------------------------------------
(* GrokClient.  A reply text is a sequence of segments: whitespace, a       *)
(* markdown fence, prose, a JSON document cut short, or one complete JSON   *)
(* document, given by the value it denotes.  A JSON value carries its       *)
(* Python type: PyStr, PyInt, PyFloat, PyNone, PyNaN (the literals NaN and  *)
(* -Infinity, which json.loads accepts), PyList, and PyDict with the keys   *)
(* it holds.                                                               *)

PyInt(n) == [type |-> "int", value |-> n]

PyFloat(x) == [type |-> "float", value |-> x]

PyNaN == [type |-> "float_nan"]

PyList(l) == [type |-> "list", value |-> l]

PyDict(keys, fields) == [type |-> "dict", keys |-> keys, fields |-> fields]

Whitespace == [seg |-> "whitespace"]

Fence == [seg |-> "fence"]

Prose == [seg |-> "prose"]

CutShort == [seg |-> "cut"]

Json(v) == [seg |-> "json", doc |-> v]

RECURSIVE SkipWhitespace(_)
SkipWhitespace(text) ==
    IF text # <<>> /\ Head(text) = Whitespace
    THEN SkipWhitespace(Tail(text))
    ELSE text

\* json.loads(content): whitespace is skipped before the document and
\* allowed after it; anything else around it, or no complete document, is a
\* JSONDecodeError.
json_loads(text) ==
    LET body == SkipWhitespace(text)
    IN  IF /\ body # <<>>
           /\ Head(body).seg = "json"
           /\ SkipWhitespace(Tail(body)) = <<>>
        THEN Ok(Head(body).doc)
        ELSE Raise("JSONDecodeError")

RequiredKeys ==
    {"invoice_number", "issue_date", "seller_name", "seller_nip",
     "buyer_name", "items", "total_net_sum", "total_gross_sum"}

\* The type pydantic asks of a field's value (lax mode): a str for a str
\* field, an int or a float for a float field, a list for items.
TypesFit(data) ==
    /\ data.fields.invoice_number.type = "str"
    /\ data.fields.seller_name.type = "str"
    /\ data.fields.seller_nip.type = "str"
    /\ data.fields.buyer_name.type = "str"
    /\ data.fields.items.type = "list"
    /\ data.fields.total_net_sum.type \in {"int", "float"}
    /\ data.fields.total_gross_sum.type \in {"int", "float"}
    /\ "currency" \in data.keys => data.fields.currency.type = "str"

\* The keyword arguments as InvoiceData takes them.
Keywords(data) ==
    [ invoice_number  |-> data.fields.invoice_number.value,
      issue_date      |-> data.fields.issue_date,
      seller_name     |-> data.fields.seller_name.value,
      seller_nip      |-> data.fields.seller_nip.value,
      buyer_name      |-> data.fields.buyer_name.value,
      items           |-> data.fields.items.value,
      total_net_sum   |-> data.fields.total_net_sum.value,
      total_gross_sum |-> data.fields.total_gross_sum.value,
      currency        |-> IF "currency" \in data.keys
                          THEN data.fields.currency.value ELSE Absent ]

\* InvoiceData(**data_dict) for any parsed value: ** needs a mapping; the
\* 'before' validator of issue_date runs on whatever value the key holds,
\* and an exception of it that is no ValueError leaves the construction as
\* it is; a missing key or a value of the wrong type is a ValidationError.
InvoiceDataKw(data) ==
    IF data.type # "dict" THEN Raise("TypeError")
    ELSE IF /\ "issue_date" \in data.keys
            /\ parse_polish_date(data.fields.issue_date) = Raise("TypeError")
    THEN Raise("TypeError")
    ELSE IF RequiredKeys \subseteq data.keys /\ TypesFit(data)
    THEN InvoiceData(Keywords(data))
    ELSE Raise("ValidationError")

INVOICE_EXTRACTION_PROMPT == "INVOICE_EXTRACTION_PROMPT"

\* f"data:image/jpeg;base64,{image_b64}", as its two parts
DataUri(image_b64) == <<"data:image/jpeg;base64,", image_b64>>

\* A slip that sends the first image only.
build_messages_first_image(images_base64) ==
    << [ role    |-> "user",
         content |->
             << [type |-> "text", text |-> INVOICE_EXTRACTION_PROMPT] >>
             \o << [ type      |-> "image_url",
                     image_url |-> [url |-> DataUri(images_base64[1])] ] >> ] >>

\* GrokClient._build_messages(images_base64)
build_messages(images_base64) ==
    << [ role    |-> "user",
         content |->
             << [type |-> "text", text |-> INVOICE_EXTRACTION_PROMPT] >>
             \o [ i \in 1..Len(images_base64) |->
                    [ type      |-> "image_url",
                      image_url |-> [url |-> DataUri(images_base64[i])] ] ] ] >>

\* The keyword arguments of self.client.chat.completions.create; the
\* temperature 0.1 is held in tenths.
Request(images_base64) ==
    [ model       |-> "grok-2-vision-1212",
      messages    |-> build_messages(images_base64),
      temperature |-> 1,
      max_tokens  |-> 2000 ]

\* The widgets of display_and_edit_invoice, filled from the stored document.
\* The row keys stand for "Opis", "Ilość", "Cena Jedn. Netto", "VAT %",
\* "Wartość Brutto", "Kategoria".
SelectboxOptions == {"PLN", "EUR", "USD"}

WidgetsOf(d) ==
    [ invoice_number |-> d.invoice_number,
      issue_date     |-> PyDate(d.issue_date),
      seller_name    |-> d.seller_name,
      seller_nip     |-> d.seller_nip,
      buyer_name     |-> d.buyer_name,
      currency       |-> d.currency,
      edited_items   |->
          [i \in 1..Len(d.items) |->
              [ Opis          |-> d.items[i].description,
                Ilosc         |-> d.items[i].quantity,
                CenaJednNetto |-> d.items[i].unit_price_net,
                VAT           |-> d.items[i].vat_rate * 10,
                WartoscBrutto |-> d.items[i].total_gross,
                Kategoria     |-> IF Truthy(d.items[i].category)
                                  THEN d.items[i].category ELSE PyStr(<<>>) ]],
      total_net      |-> d.total_net_sum,
      total_gross    |-> d.total_gross_sum ]

\* The keyword arguments build_updated_invoice hands to InvoiceData: each
\* row becomes an item dict with float(), int() and the category rule
\* applied (int() yields a whole number, written back in tenths).
ItemDicts(w) ==
    [ invoice_number  |-> w.invoice_number,
      issue_date      |-> w.issue_date,
      seller_name     |-> w.seller_name,
      seller_nip      |-> w.seller_nip,
      buyer_name      |-> w.buyer_name,
      items           |->
          [i \in 1..Len(w.edited_items) |->
              LET row == w.edited_items[i]
              IN  [ description    |-> row.Opis,
                    quantity       |-> float(row.Ilosc),
                    unit_price_net |-> float(row.CenaJednNetto),
                    vat_rate       |-> int(row.VAT) * 10,
                    total_gross    |-> float(row.WartoscBrutto),
                    category       |-> IF Truthy(row.Kategoria)
                                       THEN row.Kategoria ELSE PyNone ]],
      total_net_sum   |-> w.total_net,
      total_gross_sum |-> w.total_gross,
      currency        |-> w.currency ]

build_updated_invoice(w) == InvoiceData(ItemDicts(w))

-----------------------------------------------------------------------------
(* Excel export.  A DataFrame is its column labels, in order, and its rows, *)
(* each a record over the labels; a worksheet is its header row and its    *)
(* data rows, each a sequence of cells.                                    *)

\* The keys of the row dict of to_dataframe, in the order they are written.
DataFrameColumns ==
    << "invoice_number", "issue_date", "seller_name", "seller_nip",
       "buyer_name", "currency", "total_net_sum", "total_gross_sum",
       "description", "quantity", "unit_price_net", "vat_rate",
       "total_gross", "category" >>

\* InvoiceData.to_dataframe: one row dict per item, in the order of
\* self.items, the header fields repeated in each.
to_dataframe(d) ==
    [ columns |-> DataFrameColumns,
      rows    |->
          [i \in 1..Len(d.items) |->
              [ invoice_number  |-> d.invoice_number,
                issue_date      |-> d.issue_date,
                seller_name     |-> d.seller_name,
                seller_nip      |-> d.seller_nip,
                buyer_name      |-> d.buyer_name,
                currency        |-> d.currency,
                total_net_sum   |-> d.total_net_sum,
                total_gross_sum |-> d.total_gross_sum,
                description     |-> d.items[i].description,
                quantity        |-> d.items[i].quantity,
                unit_price_net  |-> d.items[i].unit_price_net,
                vat_rate        |-> d.items[i].vat_rate,
                total_gross     |-> d.items[i].total_gross,
                category        |-> d.items[i].category ]] ]

column_order ==
    << "invoice_number", "issue_date", "seller_name", "seller_nip",
       "buyer_name", "description", "quantity", "unit_price_net",
       "vat_rate", "total_gross", "category", "currency",
       "total_net_sum", "total_gross_sum" >>

\* The Polish column titles, written here without their diacritics.
column_names ==
    [ invoice_number  |-> "Numer faktury",
      issue_date      |-> "Data wystawienia",
      seller_name     |-> "Sprzedawca",
      seller_nip      |-> "NIP sprzedawcy",
      buyer_name      |-> "Nabywca",
      description     |-> "Opis pozycji",
      quantity        |-> "Ilosc",
      unit_price_net  |-> "Cena jedn. netto",
      vat_rate        |-> "VAT %",
      total_gross     |-> "Wartosc brutto",
      category        |-> "Kategoria",
      currency        |-> "Waluta",
      total_net_sum   |-> "Suma netto",
      total_gross_sum |-> "Suma brutto" ]

EmptyCell == [type |-> "empty"]

\* What df.to_excel writes for a value: None leaves the cell empty.
ToCell(v) == IF v = PyNone THEN EmptyCell ELSE v

Labels(df) == { df.columns[k] : k \in 1..Len(df.columns) }

\* df.to_excel(writer, index=False): the titles, then one row per row of
\* the frame, the cells in the order of the columns.
to_excel(columns, titles, rows) ==
    [ header |-> titles,
      rows   |-> [i \in 1..Len(rows) |->
                    [k \in 1..Len(columns) |->
                        IF columns[k] = "category"
                        THEN ToCell(rows[i][columns[k]])
                        ELSE rows[i][columns[k]]]] ]

\* A slip that leaves the frame's columns in the order to_dataframe gave.
write_sheet_unordered(df) ==
    to_excel(df.columns,
             [k \in 1..Len(df.columns) |-> column_names[df.columns[k]]],
             df.rows)

\* Lines 40-87 of export_to_excel: the columns are put in column_order,
\* renamed, and written.
write_sheet(df) ==
    LET available_columns ==
            SelectSeq(column_order, LAMBDA col : col \in Labels(df))
    IN  to_excel(available_columns,
                 [k \in 1..Len(available_columns) |->
                     IF available_columns[k] \in DOMAIN column_names
                     THEN column_names[available_columns[k]]
                     ELSE available_columns[k]],
                 df.rows)

\* A slip that writes whatever the document holds.
export_to_excel_unguarded(invoice_data) ==
    Ok(write_sheet(to_dataframe(invoice_data)))

export_to_excel(invoice_data) ==
    IF invoice_data.items = <<>>
    THEN Raise("ValueError")
    ELSE Ok(write_sheet(to_dataframe(invoice_data)))

-----------------------------------------------------------------------------
(* Format sniffing.  A bytes object is a sequence of integers 0..255.      *)

HeaderSize == 16

JpegMagic == <<255, 216, 255>>

PngMagic == <<137, 80, 78, 71, 13, 10, 26, 10>>

\* b'%PDF'
PdfMagic == <<37, 80, 68, 70>>

\* b'GIF8', a signature the image library knows and the sniffer does not.
GifMagic == <<71, 73, 70, 56>>

\* bytes.startswith
StartsWith(b, prefix) ==
    Len(b) >= Len(prefix) /\ SubSeq(b, 1, Len(prefix)) = prefix

\* buffer.read(n) from position 0
ReadHead(b, n) == SubSeq(b, 1, IF Len(b) < n THEN Len(b) ELSE n)

IsContinuation(x) == x >= 128 /\ x <= 191

RECURSIVE Utf8Decodes(_)
\* bytes.decode('utf-8') succeeds: every character is complete and well
\* formed; a multi-byte character cut off by the end of the bytes raises
\* UnicodeDecodeError.
Utf8Decodes(b) ==
    IF b = <<>> THEN TRUE
    ELSE LET x == b[1]
             n == Len(b)
         IN  IF x <= 127 THEN Utf8Decodes(Tail(b))
             ELSE IF x >= 194 /\ x <= 223
             THEN /\ n >= 2
                  /\ IsContinuation(b[2])
                  /\ Utf8Decodes(SubSeq(b, 3, n))
             ELSE IF x >= 224 /\ x <= 239
             THEN /\ n >= 3
                  /\ IsContinuation(b[2])
                  /\ IsContinuation(b[3])
                  /\ (x = 224 => b[2] >= 160)
                  /\ (x = 237 => b[2] <= 159)
                  /\ Utf8Decodes(SubSeq(b, 4, n))
             ELSE IF x >= 240 /\ x <= 244
             THEN /\ n >= 4
                  /\ IsContinuation(b[2])
                  /\ IsContinuation(b[3])
                  /\ IsContinuation(b[4])
                  /\ (x = 240 => b[2] >= 144)
                  /\ (x = 244 => b[2] <= 143)
                  /\ Utf8Decodes(SubSeq(b, 5, n))
             ELSE FALSE

\* Image.open(buffer) inside _detect_file_type: it identifies a stream by a
\* signature of its own list and needs the stream behind it to be readable;
\* img.format.lower() is returned, any exception gives 'unknown'.
PilSniff(f) ==
    IF f.decodable /\ StartsWith(f.content, GifMagic) THEN "gif"
    ELSE "unknown"

\* A slip that tests for text before it tests for the PDF signature.
detect_file_type_text_first(f) ==
    LET header == ReadHead(f.content, HeaderSize)
    IN  IF header = <<>> THEN Raise("CorruptedFileError")
        ELSE IF StartsWith(header, JpegMagic) THEN Ok("jpeg")
        ELSE IF StartsWith(header, PngMagic) THEN Ok("png")
        ELSE IF Utf8Decodes(header) THEN Ok("text")
        ELSE IF StartsWith(header, PdfMagic) THEN Ok("pdf")
        ELSE Ok(PilSniff(f))

\* _detect_file_type(buffer)
detect_file_type(f) ==
    LET header == ReadHead(f.content, HeaderSize)
    IN  IF header = <<>> THEN Raise("CorruptedFileError")
        ELSE IF StartsWith(header, JpegMagic) THEN Ok("jpeg")
        ELSE IF StartsWith(header, PngMagic) THEN Ok("png")
        ELSE IF StartsWith(header, PdfMagic) THEN Ok("pdf")
        ELSE IF Utf8Decodes(header) THEN Ok("text")
        ELSE Ok(PilSniff(f))

-----------------------------------------------------------------------------
(* prepare_image_for_api after the sniff: PDF conversion, image loading,    *)
(* resizing and re-encoding.  What PyMuPDF and Pillow find in the bytes is  *)
(* carried by the file: f.pdf (whether it opens, its encryption, the pages  *)
(* and what rendering each gives) and f.image (size, mode); a "fault" names *)
(* the exception a library call raises on that input, "none" when it        *)
(* succeeds.                                                               *)

RaiseMsg(e, m) == [kind |-> "raise", exc |-> e, msg |-> m]

PasswordRequiredMsg == "PDF is password-protected. Please provide password."

InvalidPasswordMsg == "Invalid password. Please try again."

\* The three exception classes image_processor.py defines.
TypedErrors ==
    {"UnsupportedFormatError", "CorruptedFileError", "PasswordProtectedPDFError"}

\* The class each normalization failure is raised with.
FailureClass ==
    [ UnsupportedFormat |-> "UnsupportedFormatError",
      CorruptedFile     |-> "CorruptedFileError",
      PasswordRequired  |-> "PasswordProtectedPDFError",
      InvalidPassword   |-> "PasswordProtectedPDFError" ]

\* pdf_document.is_encrypted right after fitz.open: PyMuPDF sets it from
\* needs_pass, which MuPDF answers with "encrypted with a non-blank
\* password": a document the empty password opens does not report itself
\* encrypted.
is_encrypted(pdf) == pdf.crypt /\ "" \notin pdf.passwords

\* pdf_document.authenticate(password): the user or the owner password.
authenticate(pdf, password) == password \in pdf.passwords

RECURSIVE Pow2(_)
Pow2(n) == IF n = 0 THEN 1 ELSE 2 * Pow2(n - 1)

\* 2^n modulo w
RECURSIVE PowMod2(_, _)
PowMod2(n, w) == IF n = 0 THEN 1 % w ELSE (2 * PowMod2(n - 1, w)) % w

\* The least j with m * 2^j >= w.
RECURSIVE Doublings(_, _)
Doublings(m, w) == IF m >= w THEN 0 ELSE 1 + Doublings(2 * m, w)

\* The p with 2^p < t <= 2^(p+1), for t >= 1 (p = -1 for t = 1).
RECURSIVE BinadeBelow(_)
BinadeBelow(t) == IF t <= 1 THEN -1 ELSE 1 + BinadeBelow((t + 1) \div 2)

\* int((max_size / den) * num) in IEEE-754 double arithmetic, for
\* 0 < max_size < den and 0 < num <= den.  The quotient max_size / den is
\* rounded to 53 bits; rho is what the rounding cut off, in units of
\* 1 / (den * 2^(52+j)).  When the exact product is a whole number t and the
\* quotient was rounded down, the product falls below t, and it is rounded
\* to the double below t, which int() truncates to t - 1, when the shortfall
\* exceeds half the spacing of the doubles below t.
float_scale(max_size, den, num) ==
    LET exact == (max_size * num) \div den
        j     == Doublings(max_size, den)
        rho   == (max_size * PowMod2(52 + j, den)) % den
    IN  IF (max_size * num) % den # 0 \/ rho = 0 \/ 2 * rho > den
        THEN exact
        ELSE IF 2 * rho * num > den * Pow2(j + BinadeBelow(exact))
        THEN exact - 1
        ELSE exact

\* _resize_image(img, max_size): the new size
resize_image(size, max_size) ==
    LET width  == size[1]
        height == size[2]
    IN  IF width > height
        THEN <<max_size, float_scale(max_size, width, height)>>
        ELSE <<float_scale(max_size, height, width), max_size>>

MaxOf(size) == IF size[1] > size[2] THEN size[1] ELSE size[2]

\* The Pillow modes that carry an alpha channel.
AlphaModes == {"RGBA", "LA", "PA", "RGBa", "La"}

\* Lines 277-284 of _optimize_image: the mode the bitmap ends in, and what
\* became of its alpha channel: "white" when the bitmap was pasted onto a
\* white RGB background with the alpha channel as mask, "dropped" when
\* img.convert('RGB') discarded the channel without blending, "none" when
\* there was no such channel.
normalize_mode(mode) ==
    IF mode \in {"RGB", "L"} THEN [mode |-> mode, alpha |-> "none"]
    ELSE IF mode = "RGBA" THEN [mode |-> "RGB", alpha |-> "white"]
    ELSE [ mode  |-> "RGB",
           alpha |-> IF mode \in AlphaModes THEN "dropped" ELSE "none" ]

\* _optimize_image(img, max_size, quality): mode conversion, resize when the
\* larger side exceeds max_size, JPEG encoding, base64.  The payload is
\* described by what was encoded.  img.resize refuses a side of 0 pixels
\* with ValueError.
optimize_image(img, max_size, quality) ==
    IF img.fault # "none" THEN Raise(img.fault)
    ELSE LET mode == normalize_mode(img.mode)
             size == IF MaxOf(img.size) > max_size
                     THEN resize_image(img.size, max_size)
                     ELSE img.size
         IN  IF size[1] < 1 \/ size[2] < 1
             THEN Raise("ValueError")
             ELSE Ok([ source  |-> img.source,
                       size    |-> size,
                       mode    |-> mode.mode,
                       alpha   |-> mode.alpha,
                       format  |-> "JPEG",
                       quality |-> quality ])

\* The first raising outcome of a sequence of outcomes, or Ok of the values.
RECURSIVE Collect(_)
Collect(rs) ==
    IF rs = <<>> THEN Ok(<<>>)
    ELSE IF IsRaise(Head(rs)) THEN Head(rs)
    ELSE LET rest == Collect(Tail(rs))
         IN  IF IsRaise(rest) THEN rest ELSE Ok(<<Head(rs).val>> \o rest.val)

\* The page loop of _convert_pdf_to_images: page i is rendered at 300 dpi and
\* becomes an RGB image.
RenderPage(page, i) ==
    IF page.render # "none" THEN Raise(page.render)
    ELSE Ok([source |-> i, size |-> page.size, mode |-> "RGB",
             fault |-> page.fault])

\* A slip that answers a missing password like a wrong one.
unlock_never_asks(pdf, password) ==
    IF ~is_encrypted(pdf) \/ authenticate(pdf, "") THEN Ok("open")
    ELSE IF password # PyNone /\ authenticate(pdf, password.value)
    THEN Ok("open")
    ELSE RaiseMsg("PasswordProtectedPDFError", InvalidPasswordMsg)

\* A slip that answers a wrong password like a missing one.
unlock_always_asks(pdf, password) ==
    IF ~is_encrypted(pdf) \/ authenticate(pdf, "") THEN Ok("open")
    ELSE IF password # PyNone /\ authenticate(pdf, password.value)
    THEN Ok("open")
    ELSE RaiseMsg("PasswordProtectedPDFError", PasswordRequiredMsg)

\* A slip that tries the caller's password before the empty one.
unlock_trace_password_first(pdf, password) ==
    IF ~is_encrypted(pdf) THEN [out |-> Ok("open"), tried |-> <<>>]
    ELSE IF password # PyNone /\ authenticate(pdf, password.value)
    THEN [out |-> Ok("open"), tried |-> <<password.value>>]
    ELSE LET first == IF password = PyNone THEN <<>>
                      ELSE <<password.value>>
         IN  IF authenticate(pdf, "")
             THEN [out |-> Ok("open"), tried |-> first \o <<"">>]
             ELSE [out   |-> RaiseMsg("PasswordProtectedPDFError",
                                      IF password = PyNone
                                      THEN PasswordRequiredMsg
                                      ELSE InvalidPasswordMsg),
                   tried |-> first \o <<"">>]

\* The encryption check of _convert_pdf_to_images (lines 192-214): the empty
\* password is tried first, then the caller's.  "tried" lists the passwords
\* handed to pdf_document.authenticate, in order.
unlock_trace(pdf, password) ==
    IF ~is_encrypted(pdf) THEN [out |-> Ok("open"), tried |-> <<>>]
    ELSE IF authenticate(pdf, "")
    THEN [out |-> Ok("open"), tried |-> <<"">>]
    ELSE IF password = PyNone
    THEN [out   |-> RaiseMsg("PasswordProtectedPDFError", PasswordRequiredMsg),
          tried |-> <<"">>]
    ELSE IF ~authenticate(pdf, password.value)
    THEN [out   |-> RaiseMsg("PasswordProtectedPDFError", InvalidPasswordMsg),
          tried |-> <<"", password.value>>]
    ELSE [out |-> Ok("open"), tried |-> <<"", password.value>>]

\* The outcome of the encryption check.
unlock(pdf, password) == unlock_trace(pdf, password).out

\* The authenticate calls of one _convert_pdf_to_images: none when fitz.open
\* raised.
authenticated_with(pdf, password) ==
    IF pdf.open # "ok" THEN <<>> ELSE unlock_trace(pdf, password).tried

\* The page count check and the page loop (lines 216-248).
render_pages(pdf) ==
    IF Len(pdf.pages) = 0 THEN Raise("CorruptedFileError")
    ELSE Collect([i \in 1..Len(pdf.pages) |-> RenderPage(pdf.pages[i], i)])

\* _convert_pdf_to_images(pdf_buffer, dpi, password): fitz.open, the
\* encryption check, the page loop, and the except clauses (lines 250-257).
convert_pdf_to_images(pdf, password) ==
    LET body ==
            IF pdf.open # "ok" THEN Raise(pdf.open)
            ELSE IF IsRaise(unlock(pdf, password)) THEN unlock(pdf, password)
            ELSE render_pages(pdf)
    IN  IF IsOk(body) THEN body
        ELSE IF body.exc = "FileDataError" THEN Raise("CorruptedFileError")
        ELSE IF body.exc \in {"PasswordProtectedPDFError",
                              "UnsupportedFormatError"} THEN body
        ELSE Raise("CorruptedFileError")

\* The except clauses of the PDF branch (lines 80-86).
PdfExcept(r) ==
    IF IsOk(r) \/ r.exc \in TypedErrors THEN r
    ELSE IF r.exc = "ImportError" THEN Raise("UnsupportedFormatError")
    ELSE r

\* The except clauses of prepare_image_for_api (lines 108-118).
OuterExcept(r) ==
    IF IsOk(r) \/ r.exc \in TypedErrors THEN r
    ELSE Raise("CorruptedFileError")

\* The branch file_type == 'pdf'
PdfBranch(f, max_size, jpeg_quality, password) ==
    LET images == convert_pdf_to_images(f.pdf, password)
    IN  PdfExcept(
            IF IsRaise(images) THEN images
            ELSE Collect([i \in 1..Len(images.val) |->
                     optimize_image(images.val[i], max_size, jpeg_quality)]))

\* The branch file_type in ['jpeg', 'jpg', 'png']
ImageBranch(f, max_size, jpeg_quality) ==
    IF ~f.decodable THEN Raise("UnidentifiedImageError")
    ELSE LET r == optimize_image(f.image, max_size, jpeg_quality)
         IN  IF IsRaise(r) THEN r ELSE Ok(<<r.val>>)

\* A slip that leaves the read position where the caller left it.
seek_nowhere(pos, target) == pos

\* buffer.seek(target)
seek(pos, target) == target

\* What the reads of a call see of the file when they start at position
\* pos: the bytes from there on, and, unless that is the whole file, neither
\* the image nor the document the libraries find in the whole file.
visible(f, pos) ==
    IF pos = 0 THEN f
    ELSE [ f EXCEPT
             !.content   = SubSeq(@, pos + 1, Len(@)),
             !.decodable = FALSE,
             !.image     = PyNone,
             !.pdf       = [open |-> "FileDataError", crypt |-> FALSE,
                            passwords |-> {}, pages |-> <<>>] ]

\* prepare_image_for_api(file_buffer, max_size, jpeg_quality, password) as
\* one call on a buffer whose read position is pos: its outcome, the bytes
\* it leaves in the buffer, and the positions it can leave the buffer at.
\* Every read of the call follows a seek(0) (lines 61, 131, 156, 186); the
\* buffer is only read.  The PDF branch reads the buffer to its end; the
\* sniff puts it back to 0; where Pillow stops reading is not fixed.
prepare_image_for_api(f, pos, a) ==
    LET seen == visible(f, seek(pos, 0))
        t    == detect_file_type(seen)
        end  == Len(f.content)
        body ==
            IF IsRaise(t) THEN t
            ELSE IF t.val = "pdf"
            THEN PdfBranch(seen, a.max_size, a.jpeg_quality, a.password)
            ELSE IF t.val \in {"jpeg", "jpg", "png"}
            THEN ImageBranch(seen, a.max_size, a.jpeg_quality)
            ELSE IF t.val = "text" THEN Raise("UnsupportedFormatError")
            ELSE IF t.val = "unknown" THEN Raise("CorruptedFileError")
            ELSE Raise("UnsupportedFormatError")
    IN  [ ret     |-> OuterExcept(body),
          content |-> f.content,
          rests   |-> IF IsRaise(t) \/ t.val = "text" THEN {0}
                      ELSE IF t.val = "pdf" THEN {end}
                      ELSE IF t.val \in {"jpeg", "jpg", "png", "unknown"}
                      THEN 0..end
                      ELSE {0} ]

\* OpenAI(api_key=..., base_url=...) at line 36 passes no max_retries, so
\* the client keeps the library's default of two further attempts.
MaxRetries == 2

\* The failures the client answers with a further attempt of its own: a
\* timeout and a 429.  Other API errors (a 400, say) are raised at once.
Retried == {"APITimeoutError", "RateLimitError"}

\* self.client.chat.completions.create (lines 75-80): the requests the one
\* call puts on the wire while the endpoint keeps giving the same answer.
create(request, answer) ==
    IF answer.kind = "error" /\ answer.exc \in Retried
    THEN [attempt \in 1..(MaxRetries + 1) |-> request]
    ELSE <<request>>

\* A slip that sends the request before it looks at the list.
send_unguarded(images_base64, answer, sent) ==
    [ ret      |-> IF images_base64 = <<>> THEN Raise("ValueError")
                   ELSE IF answer.kind = "error" THEN Raise(answer.exc)
                   ELSE Pending,
      requests |-> sent \o create(Request(images_base64), answer) ]

\* Lines 68-80 of extract_data: the outcome so far and the requests sent.
send(images_base64, answer, sent) ==
    IF images_base64 = <<>>
    THEN [ret |-> Raise("ValueError"), requests |-> sent]
    ELSE [ ret      |-> IF answer.kind = "error" THEN Raise(answer.exc)
                        ELSE Pending,
           requests |-> sent \o create(Request(images_base64), answer) ]

-----------------------------------------------------------------------------
(* Inputs of the validator calls.                                          *)

MaxNipChunks == 4

NipPrefixes == {<<>>, <<"P", "L">>, <<"P", "L", " ">>}

NipSeparators == {<<>>, <<"-">>, <<" ">>, <<".">>}

NipChunks ==
    { <<"1", "2", "3">>, <<"4", "5", "6">>, <<"7", "8">>, <<"9", "0">>,
      <<"7">>, <<"U+0663">> }

RECURSIVE JoinWith(_, _)
\* sep.join(chunks)
JoinWith(chunks, sep) ==
    IF chunks = <<>> THEN <<>>
    ELSE IF Len(chunks) = 1 THEN Head(chunks)
    ELSE Head(chunks) \o sep \o JoinWith(Tail(chunks), sep)

NipInputs ==
    { p \o JoinWith(cs, s) :
        p \in NipPrefixes, s \in NipSeparators,
        cs \in UNION { [1..n -> NipChunks] : n \in 0..MaxNipChunks } }

MaxNumberLen == 4

NumberAlphabet == {"F", "1", "/", " ", "\t", "U+00A0"}

NumberInputs == UNION { [1..n -> NumberAlphabet] : n \in 0..MaxNumberLen }

\* Date strings: three fields joined by two separators, the separators
\* possibly different, the fields possibly out of range or misplaced.
DateFields ==
    { <<"1">>, <<"0", "1">>, <<" ", "1">>, <<"1", " ">>, <<"2">>,
      <<"0", "2">>, <<"1", "2">>, <<"1", "3">>, <<"2", "9">>, <<"3", "0">>,
      <<"3", "1">>, <<"3", "2">>, <<"0", "0">>, <<"2", "0", "2", "4">>,
      <<"2", "0", "2", "5">>, <<"0", "0", "0", "0">> }

DateSeparators == {".", "/", "-"}

DateStrings ==
    { f1 \o <<s1>> \o f2 \o <<s2>> \o f3 :
        f1 \in DateFields, s1 \in DateSeparators, f2 \in DateFields,
        s2 \in DateSeparators, f3 \in DateFields }

DateYears == {2024, 2025}

\* The calendar dates of the years the inputs mention.
CalendarDates ==
    { Date(y, m, d) : y \in DateYears, m \in 1..12, d \in 1..31 } \cap
    { dt \in [year : DateYears, month : 1..12, day : 1..31] :
        IsCalendarDate(dt.year, dt.month, dt.day) }

DateInputs ==
    { PyStr(s) : s \in DateStrings } \cup { PyDate(d) : d \in CalendarDates }

\* Replies of the model and values a user may type.
MaxEdits == 1

MaxItems == 3

NoDoc == [type |-> "NoneType"]

NoWidgets == [type |-> "NoneType"]

Nip10 == <<"1", "2", "3", "4", "5", "6", "7", "8", "9", "0">>

NumberValues == { <<"F", "V", " ", "1">>, <<" ">>, <<"F", "\t", "1">> }

DateTexts ==
    { PyStr(<<"2", "0", "2", "5", "-", "0", "1", "-", "1", "5">>),
      PyStr(<<"1", "5", ".", "0", "1", ".", "2", "0", "2", "5">>),
      PyStr(<<"3", "2", ".", "0", "1", ".", "2", "0", "2", "5">>) }

DateObjects == { PyDate(Date(2025, 1, 15)), PyDate(Date(2024, 2, 29)) }

NameValues == { <<"A">>, <<>> }

NipValues ==
    { Nip10,
      <<"P", "L", " ", "1", "2", "3", "-", "4", "5", "6", "-", "7", "8",
        "-", "9", "0">>,
      <<"1", "2", "3">>,
      <<"1", "2", "3", "4", "5", "6", "7", "8", "9", "U+0663">> }

SumValues == { -10, 0, 1005 }

CurrencyValues == { Absent, "PLN", "EUR", "USD", "GBP" }

DescriptionValues == { <<"a">>, <<" ", "a", " ">>, <<" ">>, <<>> }

QuantityValues == { -10, 0, 15 }

PriceValues == { -5, 0, 100 }

\* -1, -0.5, 0, 23, 23.5, 100, 100.5, 101
VatValues == { -10, -5, 0, 230, 235, 1000, 1005, 1010 }

CategoryValues == { PyNone, PyStr(<<>>), PyStr(<<"I", "T">>) }

ItemFields ==
    [ description    |-> DescriptionValues,
      quantity       |-> QuantityValues,
      unit_price_net |-> PriceValues,
      vat_rate       |-> VatValues,
      total_gross    |-> PriceValues,
      category       |-> CategoryValues ]

BaseItem1 ==
    [ description |-> <<"a">>, quantity |-> 15, unit_price_net |-> 100,
      vat_rate |-> 230, total_gross |-> 100, category |-> PyNone ]

BaseItem2 ==
    [ description |-> <<" ", "a", " ">>, quantity |-> 15, unit_price_net |-> 0,
      vat_rate |-> 0, total_gross |-> 0, category |-> PyStr(<<"I", "T">>) ]

BaseReply ==
    [ invoice_number  |-> <<"F", "V", " ", "1">>,
      issue_date      |-> PyStr(<<"2", "0", "2", "5", "-", "0", "1", "-", "1", "5">>),
      seller_name     |-> <<"A">>,
      seller_nip      |-> Nip10,
      buyer_name      |-> <<"A">>,
      items           |-> <<BaseItem1, BaseItem2>>,
      total_net_sum   |-> 1005,
      total_gross_sum |-> 1005,
      currency        |-> "PLN" ]

HeaderFields ==
    [ invoice_number  |-> NumberValues,
      issue_date      |-> DateTexts,
      seller_name     |-> NameValues,
      seller_nip      |-> NipValues,
      buyer_name      |-> NameValues,
      total_net_sum   |-> SumValues,
      total_gross_sum |-> SumValues,
      currency        |-> CurrencyValues ]

\* The base reply, and every reply that differs from it in one header
\* field, in one field of one item, or in the number of items.
Replies ==
    {BaseReply}
    \cup { [BaseReply EXCEPT ![f] = v] :
             f \in {"invoice_number"}, v \in HeaderFields.invoice_number }
    \cup { [BaseReply EXCEPT !.issue_date = v] : v \in DateTexts }
    \cup { [BaseReply EXCEPT !.seller_name = v] : v \in NameValues }
    \cup { [BaseReply EXCEPT !.seller_nip = v] : v \in NipValues }
    \cup { [BaseReply EXCEPT !.buyer_name = v] : v \in NameValues }
    \cup { [BaseReply EXCEPT !.total_net_sum = v] : v \in SumValues }
    \cup { [BaseReply EXCEPT !.total_gross_sum = v] : v \in SumValues }
    \cup { [BaseReply EXCEPT !.currency = v] : v \in CurrencyValues }
    \cup UNION { { [BaseReply EXCEPT !.items[i][f] = v] : v \in ItemFields[f] } :
                 i \in 1..2, f \in DOMAIN ItemFields }
    \cup { [BaseReply EXCEPT !.items = v] :
             v \in { <<>>, <<BaseItem1>>, <<BaseItem2, BaseItem1>> } }

\* Uploaded files: a signature (whole, cut short, or none), ASCII filler,
\* and an ending that is nothing, a two- or three-byte character, a byte
\* that UTF-8 never uses, or the first byte of a character alone.
MaxFill == 16

SniffPrefixes ==
    { <<>>, JpegMagic, <<255, 216>>, PngMagic, <<137, 80, 78, 71>>,
      PdfMagic, <<37, 80, 68>>, GifMagic, <<104, 105>> }

SniffEndings ==
    { <<>>, <<195, 169>>, <<226, 130, 172>>, <<255>>, <<195>> }

Fill(n) == [i \in 1..n |-> 97]

FileNames == { "scan.jpg", "scan.pdf", "notes.txt" }

Files ==
    { [ name      |-> nm,
        content   |-> p \o Fill(n) \o e,
        decodable |-> d ] :
        nm \in FileNames, p \in SniffPrefixes, n \in 0..MaxFill,
        e \in SniffEndings, d \in BOOLEAN }

NoFile == [type |-> "NoneType"]

-----------------------------------------------------------------------------
(* Inputs of prepare_image_for_api: uploads that are an image, a PDF or    *)
(* neither, and the call's max_size, jpeg_quality and password.            *)

MaxPages == 3

DefaultMaxSize == 2000

DefaultJpegQuality == 85

NoImage == [type |-> "NoneType"]

NoPdf == [type |-> "NoneType"]

\* Pixel sizes: below, at and above the maximum, both orientations, a
\* square, a strip one pixel high, and sizes whose proportional side is a
\* whole number.
ImageSizes ==
    { <<800, 600>>, <<2000, 1500>>, <<4000, 3000>>, <<3000, 4000>>,
      <<3000, 3000>>, <<2124, 1062>>, <<1062, 2124>>, <<2001, 1>>,
      <<2480, 3508>> }

ImageModes == {"RGB", "RGBA", "L", "LA", "P", "CMYK"}

\* What Pillow can raise while converting, resizing or encoding.
OptimizeFaults == {"none", "OSError", "ImportError"}

MaxSizes == {DefaultMaxSize, 1000}

Images ==
    [ source : {"image"}, size : ImageSizes, mode : ImageModes,
      fault : OptimizeFaults ]

ImageUploads ==
    { [ name |-> "scan.jpg", content |-> magic \o Fill(4), decodable |-> TRUE,
        image |-> img, pdf |-> NoPdf ] :
        magic \in {JpegMagic, PngMagic}, img \in Images }
    \cup
    { [ name |-> "scan.jpg", content |-> magic \o Fill(4), decodable |-> FALSE,
        image |-> NoImage, pdf |-> NoPdf ] : magic \in {JpegMagic, PngMagic} }

\* A page as rendered at 300 dpi: its pixel size, what get_pixmap and the
\* PNG round trip raise, and what optimizing the rendered image raises.
Pages ==
    { [size |-> <<2480, 3508>>, render |-> "none", fault |-> "none"],
      [size |-> <<3508, 2480>>, render |-> "none", fault |-> "none"],
      [size |-> <<1000, 800>>,  render |-> "none", fault |-> "none"],
      [size |-> <<2480, 3508>>, render |-> "RuntimeError", fault |-> "none"],
      [size |-> <<2480, 3508>>, render |-> "none", fault |-> "ImportError"] }

PageSeqs == UNION { [1..n -> Pages] : n \in 0..MaxPages }

\* The passwords that open a document: none for a plain one; a user and
\* possibly an owner password for an encrypted one, the user password
\* possibly empty.
Protections ==
    { [crypt |-> FALSE, passwords |-> {}],
      [crypt |-> TRUE,  passwords |-> {""}],
      [crypt |-> TRUE,  passwords |-> {"", "owner"}],
      [crypt |-> TRUE,  passwords |-> {"secret"}],
      [crypt |-> TRUE,  passwords |-> {"secret", "owner"}] }

PdfDocs ==
    { [open |-> "ok", crypt |-> pr.crypt, passwords |-> pr.passwords,
       pages |-> ps] : pr \in Protections, ps \in PageSeqs }
    \cup
    { [open |-> o, crypt |-> FALSE, passwords |-> {}, pages |-> <<>>] :
        o \in {"FileDataError", "RuntimeError"} }

PdfUploads ==
    { [ name |-> "scan.pdf", content |-> PdfMagic \o Fill(4),
        decodable |-> FALSE, image |-> NoImage, pdf |-> d ] : d \in PdfDocs }

OtherUploads ==
    { [ name |-> "notes.txt", content |-> c, decodable |-> d,
        image |-> NoImage, pdf |-> NoPdf ] :
        c \in {<<>>, <<104, 105>>, <<255>>, GifMagic \o Fill(4)},
        d \in BOOLEAN }

Uploads == ImageUploads \cup PdfUploads \cup OtherUploads

PasswordArgs ==
    {PyNone, PyStr(""), PyStr("secret"), PyStr("owner"), PyStr("wrong")}

PrepareArgs ==
    [ max_size : MaxSizes, jpeg_quality : {DefaultJpegQuality},
      password : PasswordArgs ]

\* The files the user of app.py selects: two different encrypted PDFs of
\* one name, a third of another name, a PDF without encryption, a JPEG.
OnePage == <<[size |-> <<2480, 3508>>, render |-> "none", fault |-> "none"]>>

AppPdf(name, mark, passwords) ==
    [ name |-> name, content |-> PdfMagic \o <<mark>>, decodable |-> FALSE,
      image |-> NoImage,
      pdf |-> [ open |-> "ok", crypt |-> passwords # {},
                passwords |-> passwords, pages |-> OnePage ] ]

AppUploads ==
    { AppPdf("a.pdf", 49, {"secret"}),
      AppPdf("a.pdf", 50, {"other"}),
      AppPdf("b.pdf", 51, {"secret", "owner"}),
      AppPdf("c.pdf", 52, {}),
      [ name |-> "scan.jpg", content |-> JpegMagic \o <<53>>,
        decodable |-> TRUE,
        image |-> [ source |-> "image", size |-> <<800, 600>>,
                    mode |-> "RGB", fault |-> "none" ],
        pdf |-> NoPdf ] }

\* What the user types into the password field; the unlock button is
\* disabled while the field is empty.
AppPasswords == {"secret", "other", "wrong"}

MaxClicks == 4

MaxCalls == 2

\* The uploads normalized repeatedly: PDFs of at most one page, RGB images
\* that Pillow handles, files that do not decode, and files that are
\* neither.
RepeatUploads ==
    { f \in PdfUploads : Len(f.pdf.pages) <= 1 }
    \cup { f \in ImageUploads :
               \/ ~f.decodable
               \/ f.image.mode = "RGB" /\ f.image.fault = "none" }
    \cup OtherUploads

-----------------------------------------------------------------------------
(* Inputs of GrokClient.extract_data: the payload list, and what the        *)
(* endpoint answers.                                                       *)

MaxPayloads == 3

PayloadLists == UNION { [1..n -> {"QUFB", "QkJC"}] : n \in 0..MaxPayloads }

BaseFields ==
    [ invoice_number  |-> PyStr(BaseReply.invoice_number),
      issue_date      |-> BaseReply.issue_date,
      seller_name     |-> PyStr(BaseReply.seller_name),
      seller_nip      |-> PyStr(BaseReply.seller_nip),
      buyer_name      |-> PyStr(BaseReply.buyer_name),
      items           |-> PyList(BaseReply.items),
      total_net_sum   |-> PyFloat(BaseReply.total_net_sum),
      total_gross_sum |-> PyFloat(BaseReply.total_gross_sum),
      currency        |-> PyStr("PLN") ]

AllKeys == RequiredKeys \cup {"currency"}

BadItem == [BaseItem1 EXCEPT !.vat_rate = 1010]

\* Values a reply can hold under a key.
JsonFields ==
    [ invoice_number  |-> {PyStr(<<" ">>), PyInt(1)},
      issue_date      |-> DateTexts \cup {PyInt(20250115), PyNone},
      seller_name     |-> {PyStr(<<>>), PyNone},
      seller_nip      |-> {PyStr(<<"1", "2", "3">>), PyInt(1234567890)},
      buyer_name      |-> {PyStr(<<>>)},
      items           |-> {PyList(<<>>), PyList(<<BadItem>>), PyNone},
      total_net_sum   |-> {PyFloat(-10), PyInt(0), PyNaN, PyStr(<<"a">>)},
      total_gross_sum |-> {PyFloat(-10), PyNaN},
      currency        |-> {PyStr("EUR"), PyInt(1)} ]

\* The complete object, every object that lacks one key or differs in one
\* value, and values that are no object.
JsonDocs ==
    {PyDict(AllKeys, BaseFields)}
    \cup { PyDict(AllKeys \ {k}, BaseFields) : k \in AllKeys }
    \cup UNION { { PyDict(AllKeys, [BaseFields EXCEPT ![k] = v]) :
                     v \in JsonFields[k] } : k \in AllKeys }
    \cup { PyDict(AllKeys \ {"buyer_name"},
                  [BaseFields EXCEPT !.issue_date = PyNone]) }
    \cup { PyList(<<>>), PyInt(5), PyNone, PyStr(<<"o", "k">>) }

ReplyTexts ==
    { <<Json(v)>> : v \in JsonDocs }
    \cup { <<Whitespace, Json(v), Whitespace>> : v \in JsonDocs }
    \cup { <<Fence, Json(v), Fence>> : v \in JsonDocs }
    \cup { <<Prose, Json(v)>> : v \in JsonDocs }
    \cup { <<Json(v), Prose>> : v \in JsonDocs }
    \cup { <<>>, <<Whitespace>>, <<CutShort>>, <<Prose>> }

ApiErrors == {"APITimeoutError", "RateLimitError", "APIError"}

Responses ==
    { [kind |-> "text", content |-> t] : t \in ReplyTexts }
    \cup { [kind |-> "error", exc |-> e] : e \in ApiErrors }

-----------------------------------------------------------------------------
(* Specification of the tax-ID normalizer: one call on any input.          *)

FileIdle ==
    /\ file = NoFile
    /\ fileType = "none"

DocIdle ==
    /\ reply = PyNone
    /\ doc = NoDoc
    /\ widgets = NoWidgets
    /\ updated = Pending
    /\ edits = 0

ValIdle ==
    /\ arg = PyNone
    /\ ret = Pending

NetIdle ==
    /\ requests = <<>>
    /\ response = PyNone

NoSession ==
    [ encrypted_pdf_buffer   |-> PyNone,
      encrypted_pdf_filename |-> PyNone,
      pdf_password_error     |-> PyNone,
      invoice_data           |-> PyNone ]

CallIdle ==
    /\ cursor = 0
    /\ calls = 0
    /\ auths = <<>>
    /\ session = NoSession

InitNip ==
    /\ pc = "call_normalize_nip"
    /\ arg \in NipInputs
    /\ ret = Pending
    /\ DocIdle
    /\ NetIdle
    /\ CallIdle
    /\ FileIdle

CallNormalizeNip ==
    /\ pc = "call_normalize_nip"
    /\ ret' = normalize_nip(arg)
    /\ pc' = "returned"
    /\ UNCHANGED <<arg, docVars, fileVars, netVars, callVars>>

NextNip == CallNormalizeNip

SpecNip == InitNip /\ [][NextNip]_vars

(* Specification of the document-number normalizer.                        *)

InitNumber ==
    /\ pc = "call_normalize_invoice_number"
    /\ arg \in NumberInputs
    /\ ret = Pending
    /\ DocIdle
    /\ NetIdle
    /\ CallIdle
    /\ FileIdle

CallNormalizeInvoiceNumber ==
    /\ pc = "call_normalize_invoice_number"
    /\ ret' = normalize_invoice_number(arg)
    /\ pc' = "returned"
    /\ UNCHANGED <<arg, docVars, fileVars, netVars, callVars>>

NextNumber == CallNormalizeInvoiceNumber

SpecNumber == InitNumber /\ [][NextNumber]_vars

(* Specification of the date parser.                                       *)

InitDate ==
    /\ pc = "call_parse_polish_date"
    /\ arg \in DateInputs
    /\ ret = Pending
    /\ DocIdle
    /\ NetIdle
    /\ CallIdle
    /\ FileIdle

CallParsePolishDate ==
    /\ pc = "call_parse_polish_date"
    /\ ret' = parse_polish_date(arg)
    /\ pc' = "returned"
    /\ UNCHANGED <<arg, docVars, fileVars, netVars, callVars>>

NextDate == CallParsePolishDate

SpecDate == InitDate /\ [][NextDate]_vars

(* Specification of the document life cycle: the reply is validated into   *)
(* the stored document (process_invoice), each rerun shows it in the edit  *)
(* widgets and rebuilds a document from them (display_and_edit_invoice),   *)
(* and the user edits one widget at a time.                                *)

InitDoc ==
    /\ pc = "extract"
    /\ reply \in Replies
    /\ doc = NoDoc
    /\ widgets = NoWidgets
    /\ updated = Pending
    /\ edits = 0
    /\ ValIdle
    /\ FileIdle
    /\ NetIdle
    /\ CallIdle

\* process_invoice, steps 2 and 3: extract_data, then store the document;
\* a failure is reported and nothing is stored.
ExtractData ==
    /\ pc = "extract"
    /\ LET r == extract_data(reply)
       IN  IF IsOk(r)
           THEN doc' = r.val /\ pc' = "display"
           ELSE doc' = doc /\ pc' = "extract_failed"
    /\ UNCHANGED <<reply, widgets, updated, edits, valVars,
                   fileVars, netVars, callVars>>

\* display_and_edit_invoice on the first rerun: the widgets take their
\* values from the document (the selectbox index is looked up in its
\* options and raises ValueError for any other code), then
\* build_updated_invoice runs on them.
Display ==
    /\ pc = "display"
    /\ IF doc.currency \in SelectboxOptions
       THEN /\ widgets' = WidgetsOf(doc)
            /\ updated' = build_updated_invoice(WidgetsOf(doc))
            /\ pc' = "editing"
       ELSE /\ pc' = "display_failed"
            /\ UNCHANGED <<widgets, updated>>
    /\ UNCHANGED <<reply, doc, edits, valVars, fileVars, netVars, callVars>>

\* The widgets after one edit of the user.
HeaderEdits(w) ==
    { [w EXCEPT !.invoice_number = v] : v \in NumberValues }
    \cup { [w EXCEPT !.issue_date = v] : v \in DateObjects }
    \cup { [w EXCEPT !.seller_name = v] : v \in NameValues }
    \cup { [w EXCEPT !.seller_nip = v] : v \in NipValues }
    \cup { [w EXCEPT !.buyer_name = v] : v \in NameValues }
    \cup { [w EXCEPT !.currency = v] : v \in SelectboxOptions }
    \cup { [w EXCEPT !.total_net = v] : v \in SumValues }
    \cup { [w EXCEPT !.total_gross = v] : v \in SumValues }

RowFields ==
    [ Opis          |-> DescriptionValues,
      Ilosc         |-> QuantityValues,
      CenaJednNetto |-> PriceValues,
      VAT           |-> VatValues,
      WartoscBrutto |-> PriceValues,
      Kategoria     |-> CategoryValues \ {PyNone} ]

NewRow ==
    [ Opis |-> <<"a">>, Ilosc |-> 15, CenaJednNetto |-> 100, VAT |-> 230,
      WartoscBrutto |-> 100, Kategoria |-> PyStr(<<>>) ]

RemoveAt(rows, i) ==
    [k \in 1..(Len(rows) - 1) |-> IF k < i THEN rows[k] ELSE rows[k + 1]]

RowEdits(w) ==
    UNION { { [w EXCEPT !.edited_items[i][f] = v] : v \in RowFields[f] } :
            i \in 1..Len(w.edited_items), f \in DOMAIN RowFields }
    \cup { [w EXCEPT !.edited_items = RemoveAt(@, i)] :
             i \in 1..Len(w.edited_items) }
    \cup (IF Len(w.edited_items) < MaxItems
          THEN { [w EXCEPT !.edited_items = Append(@, NewRow)] }
          ELSE {})

\* A header widget is changed; the script reruns and rebuilds the document.
EditHeader ==
    /\ pc = "editing"
    /\ edits < MaxEdits
    /\ \E w \in HeaderEdits(widgets) :
          /\ widgets' = w
          /\ updated' = build_updated_invoice(w)
    /\ edits' = edits + 1
    /\ UNCHANGED <<pc, reply, doc, valVars, fileVars, netVars, callVars>>

\* A cell of the items table is changed, or a row is added or removed.
EditItems ==
    /\ pc = "editing"
    /\ edits < MaxEdits
    /\ \E w \in RowEdits(widgets) :
          /\ widgets' = w
          /\ updated' = build_updated_invoice(w)
    /\ edits' = edits + 1
    /\ UNCHANGED <<pc, reply, doc, valVars, fileVars, netVars, callVars>>

NextDoc == ExtractData \/ Display \/ EditHeader \/ EditItems

SpecDoc == InitDoc /\ [][NextDoc]_vars

(* The same life cycle with the operations the InvoiceData class itself    *)
(* offers to any holder of the instance.  model_config carries only       *)
(* json_schema_extra: it sets neither "frozen" nor "validate_assignment",  *)
(* so an assignment is neither refused nor validated.                      *)

frozen == FALSE

\* invoice_data.<field> = value: refused on a frozen model, otherwise stored
\* as given.
SetAttr ==
    /\ pc \in {"display", "editing"}
    /\ edits < MaxEdits
    /\ ~frozen
    /\ \E f \in {"total_net_sum", "currency", "items"} :
         \E v \in (IF f = "total_net_sum" THEN SumValues
                   ELSE IF f = "currency" THEN CurrencyValues \ {Absent}
                   ELSE {<<>>}) :
            doc' = [doc EXCEPT ![f] = v]
    /\ edits' = edits + 1
    /\ UNCHANGED <<pc, reply, widgets, updated, valVars,
                   fileVars, netVars, callVars>>

\* invoice_data.items.pop(): items is a plain list.
ItemsPop ==
    /\ pc \in {"display", "editing"}
    /\ edits < MaxEdits
    /\ Len(doc.items) >= 1
    /\ doc' = [doc EXCEPT !.items = SubSeq(@, 1, Len(@) - 1)]
    /\ edits' = edits + 1
    /\ UNCHANGED <<pc, reply, widgets, updated, valVars,
                   fileVars, netVars, callVars>>

NextDocMutable == NextDoc \/ SetAttr \/ ItemsPop

SpecDocMutable == InitDoc /\ [][NextDocMutable]_vars

(* Specification of the Excel export: the life cycle above, ended by one   *)
(* call of export_to_excel, on the document rebuilt from the widgets (the  *)
(* download button) or on the stored instance.                             *)

\* display_and_edit_invoice, lines 485-506: the rebuilt document is
\* exported; any exception is shown as an error.
DownloadExcel ==
    /\ pc = "editing"
    /\ IsOk(updated)
    /\ arg' = updated.val
    /\ ret' = export_to_excel(updated.val)
    /\ pc' = "exported"
    /\ UNCHANGED <<docVars, fileVars, netVars, callVars>>

\* export_to_excel called by a holder of the stored instance.
ExportStored ==
    /\ pc \in {"display", "editing"}
    /\ arg' = doc
    /\ ret' = export_to_excel(doc)
    /\ pc' = "exported"
    /\ UNCHANGED <<docVars, fileVars, netVars, callVars>>

NextExport ==
    ExtractData \/ Display \/ EditItems \/ ItemsPop \/ DownloadExcel
        \/ ExportStored

SpecExport == InitDoc /\ [][NextExport]_vars

(* Specification of the document normalizer's first step: the uploaded    *)
(* file is read into a buffer and prepare_image_for_api sniffs its format  *)
(* and rejects what is no image and no PDF.                                *)

InitSniff ==
    /\ pc = "prepare"
    /\ file \in Files
    /\ fileType = "none"
    /\ arg = PyNone
    /\ ret = Pending
    /\ DocIdle
    /\ NetIdle
    /\ CallIdle

\* prepare_image_for_api up to the branch on file_type: an image goes on to
\* be loaded, a PDF to be converted, everything else is refused.  The
\* except clauses pass the three named errors through unchanged.
SniffFormat ==
    /\ pc = "prepare"
    /\ LET t == detect_file_type(file)
       IN  IF IsRaise(t)
           THEN fileType' = fileType /\ ret' = t /\ pc' = "raised"
           ELSE /\ fileType' = t.val
                /\ IF t.val = "pdf"
                   THEN ret' = ret /\ pc' = "convert_pdf"
                   ELSE IF t.val \in {"jpeg", "jpg", "png"}
                   THEN ret' = ret /\ pc' = "load_image"
                   ELSE IF t.val = "text"
                   THEN ret' = Raise("UnsupportedFormatError") /\ pc' = "raised"
                   ELSE IF t.val = "unknown"
                   THEN ret' = Raise("CorruptedFileError") /\ pc' = "raised"
                   ELSE ret' = Raise("UnsupportedFormatError") /\ pc' = "raised"
    /\ UNCHANGED <<arg, file, docVars, netVars, callVars>>

NextSniff == SniffFormat

SpecSniff == InitSniff /\ [][NextSniff]_vars

(* Specification of the document normalizer: one call of                  *)
(* prepare_image_for_api on an upload, from the sniff to the payload list  *)
(* or the error.                                                           *)

InitPrepare ==
    /\ pc = "prepare"
    /\ file \in Uploads
    /\ fileType = "none"
    /\ arg \in PrepareArgs
    /\ ret = Pending
    /\ DocIdle
    /\ NetIdle
    /\ CallIdle

\* The PDF branch: every page converted, then optimized.
ConvertPdf ==
    /\ pc = "convert_pdf"
    /\ LET r == OuterExcept(PdfBranch(file, arg.max_size, arg.jpeg_quality,
                                      arg.password))
       IN  /\ ret' = r
           /\ pc' = IF IsOk(r) THEN "returned" ELSE "raised"
    /\ auths' = authenticated_with(file.pdf, arg.password)
    /\ UNCHANGED <<arg, fileVars, docVars, netVars, cursor, calls, session>>

\* The image branch: Image.open, then optimized.
LoadImage ==
    /\ pc = "load_image"
    /\ LET r == OuterExcept(ImageBranch(file, arg.max_size, arg.jpeg_quality))
       IN  /\ ret' = r
           /\ pc' = IF IsOk(r) THEN "returned" ELSE "raised"
    /\ UNCHANGED <<arg, fileVars, docVars, netVars, callVars>>

NextPrepare == SniffFormat \/ ConvertPdf \/ LoadImage

SpecPrepare == InitPrepare /\ [][NextPrepare]_vars

(* Specification of repeated normalization: a caller holds one buffer,    *)
(* calls prepare_image_for_api on it again and again with arguments of    *)
(* its choice, moves the read position in between, and may replace the    *)
(* buffer by another upload.                                              *)

InitRepeat ==
    /\ pc = "idle"
    /\ file \in RepeatUploads
    /\ fileType = "none"
    /\ arg = PyNone
    /\ ret = Pending
    /\ DocIdle
    /\ NetIdle
    /\ CallIdle

\* One call of prepare_image_for_api on the buffer as it is.
Prepare ==
    /\ calls < MaxCalls
    /\ \E a \in PrepareArgs :
         LET r == prepare_image_for_api(file, cursor, a)
         IN  /\ arg' = a
             /\ ret' = r.ret
             /\ file' = [file EXCEPT !.content = r.content]
             /\ cursor' \in r.rests
             /\ pc' = IF IsOk(r.ret) THEN "returned" ELSE "raised"
    /\ calls' = calls + 1
    /\ UNCHANGED <<fileType, docVars, netVars, auths, session>>

\* The caller reads from the buffer or seeks in it (app.py:309, 340).
MoveCursor ==
    /\ \E pos \in {0, 1, Len(file.content)} \ {cursor} :
         /\ pos <= Len(file.content)
         /\ cursor' = pos
    /\ UNCHANGED <<pc, valVars, fileVars, docVars, netVars, calls, auths,
                   session>>

\* The caller takes up another upload in a fresh buffer.
NewBuffer ==
    /\ pc # "idle"
    /\ file' \in RepeatUploads \ {file}
    /\ cursor' = 0
    /\ pc' = "idle"
    /\ arg' = PyNone
    /\ ret' = Pending
    /\ UNCHANGED <<fileType, docVars, netVars, calls, auths, session>>

NextRepeat == Prepare \/ MoveCursor \/ NewBuffer

SpecRepeat == InitRepeat /\ [][NextRepeat]_vars

(* The password loop of app.py.  st.session_state holds the stored         *)
(* encrypted PDF (encrypted_pdf_buffer, encrypted_pdf_filename), the       *)
(* message of the last wrong password (pdf_password_error) and the         *)
(* extracted document (invoice_data, held here as the name of the file it  *)
(* came from).  A buffer is the bytes of a file together with what the     *)
(* libraries find in them.                                                 *)

BytesOf(f) ==
    [ content |-> f.content, decodable |-> f.decodable, image |-> f.image,
      pdf |-> f.pdf ]

\* FakeUploadedFile(buffer, name): read() seeks to 0 and reads it all.
FakeUploadedFile(buffer, name) ==
    [ name |-> name, content |-> buffer.content,
      decodable |-> buffer.decodable, image |-> buffer.image,
      pdf |-> buffer.pdf ]

\* The three assignments of lines 224-226, 278-280 and 323-325.
ClearEncrypted(sess) ==
    [ sess EXCEPT !.encrypted_pdf_buffer   = PyNone,
                  !.encrypted_pdf_filename = PyNone,
                  !.pdf_password_error     = PyNone ]

\* "Invalid password" in str(e)
MentionsInvalidPassword(msg) == msg = InvalidPasswordMsg

WrongPasswordNote == "Nieprawidlowe haslo. Sprobuj ponownie."

\* A slip that drops the stored PDF when the password was wrong.
process_invoice_forgets(uploaded_file, password, answer, sess) ==
    LET r == prepare_image_for_api(
                 uploaded_file, 0,
                 [ max_size |-> DefaultMaxSize,
                   jpeg_quality |-> DefaultJpegQuality,
                   password |-> password ]).ret
    IN  [ ret     |-> r,
          session |->
              IF IsOk(r)
              THEN IF answer = "document"
                   THEN ClearEncrypted(
                            [sess EXCEPT !.invoice_data =
                                             PyStr(uploaded_file.name)])
                   ELSE sess
              ELSE IF r.exc = "PasswordProtectedPDFError"
              THEN IF MentionsInvalidPassword(r.msg)
                   THEN [ ClearEncrypted(sess) EXCEPT
                            !.pdf_password_error = PyStr(WrongPasswordNote) ]
                   ELSE [ sess EXCEPT
                            !.encrypted_pdf_buffer   = BytesOf(uploaded_file),
                            !.encrypted_pdf_filename =
                                PyStr(uploaded_file.name),
                            !.pdf_password_error     = PyNone ]
              ELSE sess ]

\* process_invoice(uploaded_file, password): the file is read into a fresh
\* buffer and normalized with the default max_size and jpeg_quality; the
\* payloads go to GrokClient.extract_data, which returns a document or
\* raises ("answer"); the outcome of the normalization and the session
\* state the call leaves.
process_invoice(uploaded_file, password, answer, sess) ==
    LET r == prepare_image_for_api(
                 uploaded_file, 0,
                 [ max_size |-> DefaultMaxSize,
                   jpeg_quality |-> DefaultJpegQuality,
                   password |-> password ]).ret
    IN  [ ret     |-> r,
          session |->
              IF IsOk(r)
              THEN IF answer = "document"
                   THEN ClearEncrypted(
                            [sess EXCEPT !.invoice_data =
                                             PyStr(uploaded_file.name)])
                   ELSE sess
              ELSE IF r.exc = "PasswordProtectedPDFError"
              THEN IF MentionsInvalidPassword(r.msg)
                   THEN [ sess EXCEPT
                            !.pdf_password_error = PyStr(WrongPasswordNote) ]
                   ELSE [ sess EXCEPT
                            !.encrypted_pdf_buffer   = BytesOf(uploaded_file),
                            !.encrypted_pdf_filename =
                                PyStr(uploaded_file.name),
                            !.pdf_password_error     = PyNone ]
              ELSE sess ]

\* Lines 220-226 of main: the stored PDF is dropped when a file is selected
\* whose name differs from the stored name.
on_upload(uploaded_file, sess) ==
    IF /\ sess.encrypted_pdf_filename # PyNone
       /\ sess.encrypted_pdf_filename # PyStr(uploaded_file.name)
    THEN ClearEncrypted(sess)
    ELSE sess

(* Specification of the password loop of app.py: each action is one run   *)
(* of the script, started by the user selecting or removing a file or      *)
(* pressing a button.  The uploader hands the script the selected file     *)
(* with its read position at the start.                                    *)

InitApp ==
    /\ pc = "idle"
    /\ file = NoFile
    /\ fileType = "none"
    /\ arg = PyNone
    /\ ret = Pending
    /\ DocIdle
    /\ NetIdle
    /\ CallIdle

PasswordMode == session.encrypted_pdf_buffer # PyNone

\* The user selects a file, the first or in place of another.
SelectFile ==
    /\ \E f \in AppUploads \ {file} :
         /\ file' = f
         /\ session' = on_upload(f, session)
    /\ pc' = "idle"
    /\ arg' = PyNone
    /\ ret' = Pending
    /\ UNCHANGED <<fileType, docVars, netVars, cursor, calls, auths>>

\* The user removes the file: "if uploaded_file:" skips the rest of main.
RemoveFile ==
    /\ file # NoFile
    /\ file' = NoFile
    /\ pc' = "idle"
    /\ arg' = PyNone
    /\ ret' = Pending
    /\ UNCHANGED <<fileType, docVars, netVars, callVars>>

\* The analyse button (lines 235, 284-289): process_invoice(uploaded_file),
\* unless a stored PDF waits for its password.
Analyze ==
    /\ file # NoFile
    /\ calls < MaxClicks
    /\ IF PasswordMode
       THEN UNCHANGED <<pc, valVars, calls, session>>
       ELSE \E answer \in {"document", "error"} :
              LET r == process_invoice(file, PyNone, answer, session)
              IN  /\ arg' = [name |-> file.name, content |-> file.content,
                             password |-> PyNone]
                  /\ ret' = r.ret
                  /\ session' = r.session
                  /\ calls' = calls + 1
                  /\ pc' = IF IsOk(r.ret) /\ answer = "document"
                           THEN "stored" ELSE "processed"
    /\ UNCHANGED <<fileVars, docVars, netVars, cursor, auths>>

\* The unlock button (lines 265-274) with a password typed in:
\* process_encrypted_pdf_with_password(pdf_password).
Unlock ==
    /\ file # NoFile
    /\ PasswordMode
    /\ calls < MaxClicks
    /\ \E password \in AppPasswords, answer \in {"document", "error"} :
         LET fake_file == FakeUploadedFile(
                              session.encrypted_pdf_buffer,
                              session.encrypted_pdf_filename.value)
             r == process_invoice(fake_file, PyStr(password), answer, session)
         IN  /\ arg' = [name |-> fake_file.name,
                        content |-> fake_file.content,
                        password |-> PyStr(password)]
             /\ ret' = r.ret
             /\ session' = r.session
             /\ pc' = IF IsOk(r.ret) /\ answer = "document"
                      THEN "stored" ELSE "processed"
    /\ calls' = calls + 1
    /\ UNCHANGED <<fileVars, docVars, netVars, cursor, auths>>

\* The cancel button (lines 277-281).
Cancel ==
    /\ file # NoFile
    /\ PasswordMode
    /\ session' = ClearEncrypted(session)
    /\ pc' = "cancelled"
    /\ arg' = PyNone
    /\ ret' = Pending
    /\ UNCHANGED <<fileVars, docVars, netVars, cursor, calls, auths>>

NextApp == SelectFile \/ RemoveFile \/ Analyze \/ Unlock \/ Cancel

SpecApp == InitApp /\ [][NextApp]_vars

(* Specification of the inference client: one call of                     *)
(* GrokClient.extract_data on a payload list.                              *)

InitGrok ==
    /\ pc = "extract_data"
    /\ arg \in PayloadLists
    /\ ret = Pending
    /\ requests = <<>>
    /\ response \in Responses
    /\ DocIdle
    /\ FileIdle
    /\ CallIdle

\* extract_data up to the answer of the endpoint (lines 68-80): the empty
\* list is refused, otherwise one request is built and handed to the
\* client; an error the client raises leaves the call as it is.
CallApi ==
    /\ pc = "extract_data"
    /\ LET r == send(arg, response, requests)
       IN  /\ ret' = r.ret
           /\ requests' = r.requests
           /\ pc' = IF IsRaise(r.ret) THEN "raised" ELSE "parse"
    /\ UNCHANGED <<arg, response, docVars, fileVars, callVars>>

\* extract_data from the reply text on (lines 82-91): json.loads, then
\* InvoiceData(**data_dict).
ParseReply ==
    /\ pc = "parse"
    /\ LET data_dict == json_loads(response.content)
       IN  IF IsRaise(data_dict)
           THEN /\ ret' = data_dict
                /\ reply' = reply
                /\ pc' = "raised"
           ELSE /\ reply' = data_dict.val
                /\ ret' = InvoiceDataKw(data_dict.val)
                /\ pc' = IF IsOk(InvoiceDataKw(data_dict.val))
                         THEN "returned" ELSE "raised"
    /\ UNCHANGED <<arg, doc, widgets, updated, edits,
                   fileVars, netVars, callVars>>

NextGrok == CallApi \/ ParseReply

SpecGrok == InitGrok /\ [][NextGrok]_vars

-----------------------------------------------------------------------------
(* C1: normalize_nip returns the digit-only projection of its input when   *)
(* that projection has exactly 10 characters, and raises ValueError for    *)
(* every other projection length (the empty one included).  A digit is     *)
(* what the pattern class \d matches; letters and separators are dropped.  *)

DigitProjection(s) == SelectSeq(s, IsDecimalDigit)

C1_NormalizeNip ==
    pc = "returned" =>
        LET p == DigitProjection(arg)
        IN  IF Len(p) = NipLength
            THEN ret = Ok(p)
            ELSE ret = Raise("ValueError")

\* "PL 123-456-78-90" was normalized to "1234567890".
C1_Witness ==
    /\ pc = "returned"
    /\ arg = <<"P", "L", " ", "1", "2", "3", "-", "4", "5", "6", "-",
               "7", "8", "-", "9", "0">>
    /\ ret = Ok(<<"1", "2", "3", "4", "5", "6", "7", "8", "9", "0">>)

(* C2: the seller tax ID of every constructed InvoiceData, on either path, *)
(* is exactly 10 ASCII digits.                                             *)

IsAsciiNip(nip) ==
    Len(nip) = NipLength /\ \A i \in 1..Len(nip) : nip[i] \in AsciiDigits

C2_SellerNipAsciiDigits ==
    /\ doc # NoDoc => IsAsciiNip(doc.seller_nip)
    /\ IsOk(updated) => IsAsciiNip(updated.val.seller_nip)

(* C3: normalize_invoice_number returns its input with every whitespace    *)
(* character removed (tabs and other whitespace inside it included), and   *)
(* raises ValueError when nothing remains.                                 *)

NoWhitespace(s) == SelectSeq(s, LAMBDA c : ~IsWhitespace(c))

C3_AllWhitespaceRemoved ==
    pc = "returned" =>
        IF NoWhitespace(arg) = <<>>
        THEN ret = Raise("ValueError")
        ELSE ret = Ok(NoWhitespace(arg))

(* C4: parse_polish_date returns a date value unchanged; a string is        *)
(* accepted exactly when it spells a calendar date as day.month.year,      *)
(* day/month/year or year-month-day, and the result is then the date it    *)
(* spells; the three spellings of the returned date parse to that same     *)
(* date, so does its ISO formatting; every other string (no format         *)
(* matches, day 32, month 13, 29 February of a common year) raises         *)
(* ValueError.                                                             *)

\* The digits of n, zero-padded to the given width.
RECURSIVE Digits(_, _)
Digits(n, width) ==
    IF width = 0 THEN <<>>
    ELSE Digits(n \div 10, width - 1) \o <<DigitChars[(n % 10) + 1]>>

\* date.isoformat(): YYYY-MM-DD
isoformat(d) ==
    Digits(d.year, 4) \o <<"-">> \o Digits(d.month, 2) \o <<"-">>
        \o Digits(d.day, 2)

\* date.strftime('%d.%m.%Y') and date.strftime('%d/%m/%Y')
strftime_dmy(d, sep) ==
    Digits(d.day, 2) \o <<sep>> \o Digits(d.month, 2) \o <<sep>>
        \o Digits(d.year, 4)

\* How a day or a month may be written: two digits, or without the zero.
NumberSpellings(n) ==
    {Digits(n, 2)} \cup (IF n < 10 THEN {Digits(n, 1), <<" ">> \o Digits(n, 1)} ELSE {})

MonthSpellings(n) ==
    {Digits(n, 2)} \cup (IF n < 10 THEN {Digits(n, 1)} ELSE {})

\* Every string that spells the date in one of the three formats.
SpellingsOf(d) ==
    { dd \o <<sep>> \o mm \o <<sep>> \o Digits(d.year, 4) :
        dd \in NumberSpellings(d.day), mm \in MonthSpellings(d.month),
        sep \in {".", "/"} }
    \cup
    { Digits(d.year, 4) \o <<"-">> \o mm \o <<"-">> \o dd :
        dd \in NumberSpellings(d.day), mm \in MonthSpellings(d.month) }

ValidSpellings == UNION { SpellingsOf(d) : d \in CalendarDates }

C4_ParsePolishDate ==
    pc = "returned" =>
        /\ IsDate(arg) => ret = Ok(arg.value)
        /\ ~IsDate(arg) =>
              /\ IsOk(ret) <=> arg.value \in ValidSpellings
              /\ IsOk(ret) => arg.value \in SpellingsOf(ret.val)
              /\ IsRaise(ret) => ret = Raise("ValueError")
        /\ IsOk(ret) =>
              /\ parse_polish_date(PyStr(strftime_dmy(ret.val, "."))) = ret
              /\ parse_polish_date(PyStr(strftime_dmy(ret.val, "/"))) = ret
              /\ parse_polish_date(PyStr(isoformat(ret.val))) = ret

\* "29/02/2024" was parsed to 29 February 2024.
C4_Witness ==
    /\ pc = "returned"
    /\ arg = PyStr(<<"2", "9", "/", "0", "2", "/", "2", "0", "2", "4">>)
    /\ ret = Ok(Date(2024, 2, 29))

(* C5: every InvoiceData a construction returns, from the reply           *)
(* (extract_data) or from the edit widgets (build_updated_invoice), has at *)
(* least one item, totals >= 0, a seller_nip of 10 digits and items with   *)
(* quantity > 0, unit_price_net >= 0, total_gross >= 0 and                 *)
(* 0 <= vat_rate <= 100; and whenever the field values handed to the       *)
(* construction violate one of these (an empty item list in particular),   *)
(* the construction fails with ValidationError and yields no document.     *)

DocInvariant(d) ==
    /\ Len(d.items) >= 1
    /\ d.total_net_sum >= 0
    /\ d.total_gross_sum >= 0
    /\ Len(d.seller_nip) = NipLength
    /\ \A i \in 1..Len(d.seller_nip) : IsDecimalDigit(d.seller_nip[i])
    /\ \A i \in 1..Len(d.items) :
          /\ d.items[i].quantity > 0
          /\ d.items[i].unit_price_net >= 0
          /\ d.items[i].total_gross >= 0
          /\ d.items[i].vat_rate >= 0
          /\ d.items[i].vat_rate <= 100

\* The field values handed to a construction, vat_rate in tenths.
InputViolates(raw) ==
    \/ Len(raw.items) = 0
    \/ raw.total_net_sum < 0
    \/ raw.total_gross_sum < 0
    \/ Len(DigitProjection(raw.seller_nip)) # NipLength
    \/ \E i \in 1..Len(raw.items) :
          \/ raw.items[i].quantity <= 0
          \/ raw.items[i].unit_price_net < 0
          \/ raw.items[i].total_gross < 0
          \/ raw.items[i].vat_rate < 0
          \/ raw.items[i].vat_rate > 1000

FieldsOf(w) ==
    [ invoice_number  |-> w.invoice_number,
      issue_date      |-> w.issue_date,
      seller_name     |-> w.seller_name,
      seller_nip      |-> w.seller_nip,
      buyer_name      |-> w.buyer_name,
      items           |->
          [i \in 1..Len(w.edited_items) |->
              [ description    |-> w.edited_items[i].Opis,
                quantity       |-> w.edited_items[i].Ilosc,
                unit_price_net |-> w.edited_items[i].CenaJednNetto,
                vat_rate       |-> w.edited_items[i].VAT,
                total_gross    |-> w.edited_items[i].WartoscBrutto,
                category       |-> w.edited_items[i].Kategoria ]],
      total_net_sum   |-> w.total_net,
      total_gross_sum |-> w.total_gross,
      currency        |-> w.currency ]

C6_OneValidationPath ==
    pc = "editing" => updated = InvoiceData(FieldsOf(widgets))

(* C7: a constructed InvoiceData never changes: once the document is       *)
(* stored, every step leaves every field of it as it was.                  *)

C7_DocumentImmutable == [][doc # NoDoc => doc' = doc]_vars

(* C8: the currency of a constructed InvoiceData is PLN, EUR or USD: a     *)
(* reply without a currency gives "PLN", one of the three codes is kept,   *)
(* and any other code makes construction fail.                             *)

Currencies == {"PLN", "EUR", "USD"}

C8_CurrencyEnumerated ==
    pc # "extract" =>
        /\ doc # NoDoc => doc.currency \in Currencies
        /\ (doc # NoDoc /\ reply.currency = Absent) => doc.currency = "PLN"
        /\ (doc # NoDoc /\ reply.currency \in Currencies)
              => doc.currency = reply.currency
        /\ reply.currency \notin Currencies \cup {Absent} => doc = NoDoc

(* C9: the format is decided by the content alone, on its first 16 bytes, *)
(* in this order: empty -> CorruptedFile; FF D8 FF -> JPEG; the 8-byte     *)
(* PNG signature -> PNG; %PDF -> PDF; a header that decodes as UTF-8 ->    *)
(* text, refused as UnsupportedFormat; otherwise what the image library    *)
(* finds, and when it finds nothing the file is unknown and refused as     *)
(* CorruptedFile.  The file's name plays no part.                          *)

First16(b) == [i \in 1..(IF Len(b) < 16 THEN Len(b) ELSE 16) |-> b[i]]

HasPrefix(b, prefix) ==
    Len(b) >= Len(prefix) /\ \A i \in 1..Len(prefix) : b[i] = prefix[i]

ExpectedFormat(content, libraryFinds) ==
    CASE content = <<>> -> "empty"
      [] HasPrefix(First16(content), <<255, 216, 255>>) -> "jpeg"
      [] /\ ~HasPrefix(First16(content), <<255, 216, 255>>)
         /\ HasPrefix(First16(content), <<137, 80, 78, 71, 13, 10, 26, 10>>)
            -> "png"
      [] /\ ~HasPrefix(First16(content), <<255, 216, 255>>)
         /\ ~HasPrefix(First16(content), <<137, 80, 78, 71, 13, 10, 26, 10>>)
         /\ HasPrefix(First16(content), <<37, 80, 68, 70>>)
            -> "pdf"
      [] OTHER -> IF Utf8Decodes(First16(content)) THEN "text" ELSE libraryFinds

C9_SniffPrecedence ==
    pc # "prepare" =>
        LET e == ExpectedFormat(file.content, PilSniff(file))
        IN  /\ e = "empty" => (ret = Raise("CorruptedFileError") /\ fileType = "none")
            /\ e # "empty" => fileType = e
            /\ e \in {"jpeg", "png", "pdf"} => ret = Pending
            /\ e = "text" => ret = Raise("UnsupportedFormatError")
            /\ e = "unknown" => ret = Raise("CorruptedFileError")

\* A file named scan.jpg that starts with %PDF was taken for a PDF.
C9_Witness ==
    /\ pc = "convert_pdf"
    /\ file.name = "scan.jpg"
    /\ HasPrefix(file.content, <<37, 80, 68, 70>>)
    /\ fileType = "pdf"

(* C10: every non-empty plain-text file (content that is valid UTF-8 and   *)
(* starts with none of the JPEG, PNG and PDF signatures, whatever its      *)
(* length and wherever its multi-byte characters are) is refused as        *)
(* UnsupportedFormat, never as CorruptedFile.                              *)

IsPlainText(content) ==
    /\ content # <<>>
    /\ Utf8Decodes(content)
    /\ ~HasPrefix(content, <<255, 216, 255>>)
    /\ ~HasPrefix(content, <<137, 80, 78, 71, 13, 10, 26, 10>>)
    /\ ~HasPrefix(content, <<37, 80, 68, 70>>)

C10_PlainTextUnsupported ==
    (pc # "prepare" /\ IsPlainText(file.content))
        => ret = Raise("UnsupportedFormatError")

(* C11: a PDF that opens and reports itself encrypted, normalized with no   *)
(* password, fails with the password-required failure (the                 *)
(* PasswordProtectedPDFError that asks for a password) and no payload is    *)
(* returned.                                                               *)

Finished == pc \in {"returned", "raised"}

ReportsEncrypted ==
    /\ fileType = "pdf"
    /\ file.pdf.open = "ok"
    /\ is_encrypted(file.pdf)

FailureKinds ==
    {"UnsupportedFormat", "CorruptedFile", "PasswordRequired",
     "InvalidPassword"}

C13_KindsDistinctByClass ==
    pc = "raised" =>
        Cardinality({k \in FailureKinds : FailureClass[k] = ret.exc}) = 1

(* C14: a PDF with N >= 1 pages that is not encrypted or was authenticated *)
(* gives exactly N payloads, the i-th made from the i-th page; a JPEG or    *)
(* PNG image gives exactly one payload; a PDF without pages is refused as   *)
(* CorruptedFile.  (Inputs on which a library call raises are left aside.) *)

Unlocked ==
    /\ fileType = "pdf"
    /\ file.pdf.open = "ok"
    /\ \/ ~is_encrypted(file.pdf)
       \/ /\ arg.password # PyNone
          /\ arg.password.value \in file.pdf.passwords

PagesHealthy ==
    \A i \in 1..Len(file.pdf.pages) :
        file.pdf.pages[i].render = "none" /\ file.pdf.pages[i].fault = "none"

C14_OnePayloadPerPage ==
    Finished =>
        /\ (Unlocked /\ Len(file.pdf.pages) >= 1 /\ PagesHealthy)
              => /\ IsOk(ret)
                 /\ Len(ret.val) = Len(file.pdf.pages)
                 /\ \A i \in 1..Len(ret.val) : ret.val[i].source = i
        /\ (Unlocked /\ Len(file.pdf.pages) = 0)
              => ret = Raise("CorruptedFileError")
        /\ (fileType \in {"jpeg", "png"} /\ file.decodable
               /\ file.image.fault = "none")
              => IsOk(ret) /\ Len(ret.val) = 1

(* C15: an image whose larger side exceeds max_size comes out with its      *)
(* larger side equal to max_size and its other side less than one pixel     *)
(* away from other * max_size / larger; an image whose larger side is at    *)
(* most max_size keeps its size.                                           *)

MinOf(size) == IF size[1] < size[2] THEN size[1] ELSE size[2]

\* |side - other * max_size / larger| < 1, in whole numbers.
WithinOnePixel(side, other, larger, max_size) ==
    /\ side * larger < other * max_size + larger
    /\ side * larger > other * max_size - larger

C15_ResizeProportional ==
    (Finished /\ fileType \in {"jpeg", "png"} /\ file.decodable
        /\ file.image.fault = "none")
        => /\ IsOk(ret)
           /\ LET in  == file.image.size
                  out == ret.val[1].size
              IN  IF MaxOf(in) > arg.max_size
                  THEN /\ MaxOf(out) = arg.max_size
                       /\ WithinOnePixel(MinOf(out), MinOf(in), MaxOf(in),
                                         arg.max_size)
                       /\ (in[1] > in[2]) => (out[1] > out[2])
                  ELSE out = in

(* C16: every failure of prepare_image_for_api is UnsupportedFormatError,  *)
(* CorruptedFileError or PasswordProtectedPDFError, and whenever the        *)
(* failure began as another exception raised by a library call (opening    *)
(* or rendering the PDF, opening, resizing or encoding an image) it         *)
(* reaches the caller as CorruptedFileError.                                *)

\* Some library call on the path of this input raises.
LibraryRaises ==
    \/ /\ fileType \in {"jpeg", "png"}
       /\ \/ ~file.decodable
          \/ file.image.fault # "none"
    \/ /\ fileType = "pdf"
       /\ file.pdf.open # "ok"
    \/ /\ Unlocked
       /\ ~PagesHealthy

C16_FailuresTyped ==
    pc = "raised" =>
        /\ ret.exc \in TypedErrors
        /\ LibraryRaises => ret = Raise("CorruptedFileError")

(* C17: extract_data called with an empty payload list raises ValueError   *)
(* and no request is built or sent in that call.                           *)

C17_EmptyInputLocal ==
    (pc # "extract_data" /\ arg = <<>>)
        => /\ pc = "raised"
           /\ ret = Raise("ValueError")
           /\ requests = <<>>

\* The empty list was refused although the endpoint had a reply ready.
C17_Witness ==
    /\ pc = "raised"
    /\ arg = <<>>
    /\ response.kind = "text"
    /\ ret = Raise("ValueError")

(* C18: for a list of N >= 1 payloads every request sent holds exactly one  *)
(* message, of role user, whose content has N+1 blocks: the extraction      *)
(* prompt as a text block, then one image block per payload in the order    *)
(* of the list, the i-th with the URL data:image/jpeg;base64,<payload i>.   *)

C18_RequestShape ==
    (pc # "extract_data" /\ arg # <<>>)
        => /\ requests # <<>>
           /\ \A k \in 1..Len(requests) :
                /\ Len(requests[k].messages) = 1
                /\ LET message == requests[k].messages[1]
                   IN  /\ message.role = "user"
                       /\ Len(message.content) = Len(arg) + 1
                       /\ message.content[1] =
                             [type |-> "text",
                              text |-> INVOICE_EXTRACTION_PROMPT]
                       /\ \A i \in 1..Len(arg) :
                             /\ message.content[i + 1].type = "image_url"
                             /\ message.content[i + 1].image_url.url =
                                   <<"data:image/jpeg;base64,", arg[i]>>

\* Three payloads, two of them different, were sent.
C18_Witness ==
    /\ pc = "parse"
    /\ arg = <<"QUFB", "QkJC", "QUFB">>
    /\ Len(requests) = 1

(* C19: when the reply text is not well-formed JSON (a JSON document        *)
(* inside markdown fences or next to prose, a document cut short, no        *)
(* document, or a document that uses a literal JSON does not have),         *)
(* extract_data raises JSONDecodeError, has sent one request only, and      *)
(* builds no InvoiceData.                                                   *)

\* The literals NaN, Infinity and -Infinity are no JSON.
UsesNonJsonLiteral(v) ==
    /\ v.type = "dict"
    /\ \E k \in v.keys : v.fields[k].type = "float_nan"

WellFormedJson(text) ==
    LET body == SelectSeq(text, LAMBDA g : g # Whitespace)
    IN  /\ Len(body) = 1
        /\ body[1].seg = "json"
        /\ ~UsesNonJsonLiteral(body[1].doc)

Replied ==
    /\ pc \in {"returned", "raised"}
    /\ arg # <<>>
    /\ response.kind = "text"

C19_MalformedReply ==
    (Replied /\ ~WellFormedJson(response.content))
        => /\ ret = Raise("JSONDecodeError")
           /\ Len(requests) = 1

(* C20: when the reply parses as JSON but is no object, lacks a required   *)
(* key, holds a value of the wrong type (a number or null for issue_date)   *)
(* or breaks a validation rule, extract_data raises ValidationError and     *)
(* nothing else, and returns no InvoiceData.                                *)

ShapeViolated(v) ==
    \/ v.type # "dict"
    \/ ~(RequiredKeys \subseteq v.keys)
    \/ v.fields.issue_date.type \notin {"str", "date"}
    \/ ~TypesFit(v)

C20_SchemaViolation ==
    (Replied /\ IsOk(json_loads(response.content)))
        => /\ ShapeViolated(json_loads(response.content).val) => pc = "raised"
           /\ pc = "raised" => ret = Raise("ValidationError")

(* C21: a call of extract_data puts at most one request on the wire; when  *)
(* the endpoint answers it with a rate limit, a timeout or another API      *)
(* error, that error is what the call raises, nothing further is sent, and  *)
(* no InvoiceData is returned.                                              *)

EndpointFailed ==
    /\ pc # "extract_data"
    /\ arg # <<>>
    /\ response.kind = "error"

C21_AtMostOneRequest ==
    /\ Len(requests) <= 1
    /\ EndpointFailed => /\ pc = "raised"
                         /\ ret = Raise(response.exc)
                         /\ Len(requests) = 1

(* C22: export_to_excel of a document with N >= 1 items yields one header  *)
(* row and N data rows; data row i holds the fields of item i next to the  *)
(* header fields of the document, in the column order number, issue date,  *)
(* seller name, seller tax id, buyer name, description, quantity, unit     *)
(* price, tax rate, line gross total, category, currency, net total, gross *)
(* total.                                                                 *)

SheetTitles ==
    << "Numer faktury", "Data wystawienia", "Sprzedawca", "NIP sprzedawcy",
       "Nabywca", "Opis pozycji", "Ilosc", "Cena jedn. netto", "VAT %",
       "Wartosc brutto", "Kategoria", "Waluta", "Suma netto", "Suma brutto" >>

ExpectedRow(d, item) ==
    << d.invoice_number, d.issue_date, d.seller_name, d.seller_nip,
       d.buyer_name, item.description, item.quantity, item.unit_price_net,
       item.vat_rate, item.total_gross,
       IF item.category = PyNone THEN EmptyCell ELSE item.category,
       d.currency, d.total_net_sum, d.total_gross_sum >>

C22_OneRowPerItem ==
    (pc = "exported" /\ arg.items # <<>>)
        => /\ IsOk(ret)
           /\ ret.val.header = SheetTitles
           /\ Len(ret.val.rows) = Len(arg.items)
           /\ \A i \in 1..Len(arg.items) :
                 ret.val.rows[i] = ExpectedRow(arg, arg.items[i])

\* Two items that differ were exported, the one without a category last.
C22_Witness ==
    /\ pc = "exported"
    /\ IsOk(ret)
    /\ Len(arg.items) = 2
    /\ arg.items[1] # arg.items[2]
    /\ arg.items[1].category # PyNone
    /\ arg.items[2].category = PyNone
    /\ Len(ret.val.rows) = 2

(* C23: export_to_excel called on a document whose items are empty raises  *)
(* ValueError and yields no worksheet.                                     *)

C23_EmptyDocument ==
    (pc = "exported" /\ arg.items = <<>>) => ret = Raise("ValueError")

\* The last item of a stored document was popped, then it was exported.
C23_Witness ==
    /\ pc = "exported"
    /\ edits = 1
    /\ arg.items = <<>>
    /\ ret = Raise("ValueError")

(* C25: for a PDF that reports itself encrypted the empty password is the  *)
(* first one handed to authenticate; when it opens the document nothing    *)
(* else is tried and no password failure is raised, whatever password the  *)
(* caller gave; the caller's password is tried only after the empty one    *)
(* failed, and both password failures arise only after the empty one       *)
(* failed.                                                                 *)

PasswordFailure ==
    /\ IsRaise(ret)
    /\ ret.exc = "PasswordProtectedPDFError"

FreshOutcome(f, a) == prepare_image_for_api(f, 0, a).ret

C24_Stateless ==
    [][ calls' = calls + 1
          => /\ ret' = FreshOutcome(file, arg')
             /\ file' = file
             /\ (pc # "idle" /\ arg' = arg) => ret' = ret ]_vars

\* An encrypted PDF was normalized twice without a password; the second
\* call found the buffer read to its end and asked for the password again.
C24_Witness ==
    /\ calls = 2
    /\ pc = "raised"
    /\ arg.password = PyNone
    /\ ret = RaiseMsg("PasswordProtectedPDFError", PasswordRequiredMsg)
    /\ cursor = Len(file.content)

(* C26: when an image whose larger side exceeds max_size is resized, the   *)
(* larger side becomes max_size and the other side becomes                 *)
(* other * max_size / larger rounded to the nearest whole pixel.           *)

\* side is a whole number nearest to other * max_size / larger.
IsNearest(side, other, larger, max_size) ==
    /\ 2 * side * larger <= 2 * other * max_size + larger
    /\ 2 * side * larger >= 2 * other * max_size - larger

Optimized ==
    /\ Finished
    /\ fileType \in {"jpeg", "png"}
    /\ file.decodable
    /\ file.image.fault = "none"

C26_RoundsToNearest ==
    (Optimized /\ IsOk(ret) /\ MaxOf(file.image.size) > arg.max_size)
        => /\ MaxOf(ret.val[1].size) = arg.max_size
           /\ IsNearest(MinOf(ret.val[1].size), MinOf(file.image.size),
                        MaxOf(file.image.size), arg.max_size)

(* C27: a bitmap whose mode carries an alpha channel (RGBA, LA, PA, RGBa)  *)
(* is flattened onto an opaque white background with its alpha channel as *)
(* the mask; a bitmap of any other mode that is neither RGB nor grayscale  *)
(* is converted to RGB; RGB and grayscale bitmaps keep their mode.         *)

C27_ModeNormalized ==
    (Optimized /\ IsOk(ret))
        => LET in  == file.image.mode
               out == ret.val[1]
           IN  /\ in \in AlphaModes
                    => (out.mode = "RGB" /\ out.alpha = "white")
               /\ in \in {"RGB", "L"}
                    => (out.mode = in /\ out.alpha = "none")
               /\ in \notin (AlphaModes \cup {"RGB", "L"})
                    => (out.mode = "RGB" /\ out.alpha = "none")

(* C30: for every decoded bitmap with both sides at least 1 and every      *)
(* max_size at least 1 the resize step yields sides that are both at       *)
(* least 1, so the bitmap is normalized to a payload and is not reported   *)
(* as a corrupted file.                                                    *)

C30_ResizeKeepsSides ==
    (Optimized /\ file.image.size[1] >= 1 /\ file.image.size[2] >= 1)
        => /\ IsOk(ret)
           /\ ret.val[1].size[1] >= 1
           /\ ret.val[1].size[2] >= 1

(* C28: in the password loop of app.py a password-required outcome stores *)
(* the complete bytes and the name of the uploaded file and enters         *)
(* password mode; an invalid-password outcome leaves the stored bytes and  *)
(* name as they are and records only the error message; every retry with  *)
(* a password processes the stored bytes under the stored name; a          *)
(* successful run and a cancel clear the stored bytes, name and message;   *)
(* and in password mode nothing is processed without a password.           *)

EncryptedCleared ==
    /\ session.encrypted_pdf_buffer = PyNone
    /\ session.encrypted_pdf_filename = PyNone
    /\ session.pdf_password_error = PyNone

AskedForPassword ==
    /\ pc = "processed"
    /\ ret = RaiseMsg("PasswordProtectedPDFError", PasswordRequiredMsg)

LoopStates ==
    /\ AskedForPassword
          => /\ PasswordMode
             /\ session.encrypted_pdf_buffer.content = arg.content
             /\ session.encrypted_pdf_filename = PyStr(arg.name)
             /\ session.pdf_password_error = PyNone
    /\ pc \in {"stored", "cancelled"} => EncryptedCleared

LoopSteps ==
    calls' = calls + 1
        => /\ ret' = RaiseMsg("PasswordProtectedPDFError", InvalidPasswordMsg)
                => /\ session'.encrypted_pdf_buffer =
                          session.encrypted_pdf_buffer
                   /\ session'.encrypted_pdf_filename =
                          session.encrypted_pdf_filename
                   /\ session'.invoice_data = session.invoice_data
                   /\ session'.pdf_password_error = PyStr(WrongPasswordNote)
           /\ arg'.password # PyNone
                => /\ PasswordMode
                   /\ arg'.content = session.encrypted_pdf_buffer.content
                   /\ arg'.name = session.encrypted_pdf_filename.value
           /\ PasswordMode => arg'.password # PyNone

C28_PasswordLoop == []LoopStates /\ [][LoopSteps]_vars

\* After the analysis asked for the password, a wrong one was typed: the
\* stored PDF is still the selected file and the message is shown.
C28_Witness ==
    /\ pc = "processed"
    /\ calls = 2
    /\ ret = RaiseMsg("PasswordProtectedPDFError", InvalidPasswordMsg)
    /\ PasswordMode
    /\ session.encrypted_pdf_buffer.content = file.content
    /\ session.encrypted_pdf_filename = PyStr(file.name)
    /\ session.pdf_password_error = PyStr(WrongPasswordNote)

(* C29: whenever a PDF is stored for a password retry while a file is      *)
(* selected, the stored bytes are the bytes of the selected file, and the  *)
(* bytes a password retry has processed are those of the selected file.    *)

C29_StoredIsSelected ==
    /\ (PasswordMode /\ file # NoFile)
          => session.encrypted_pdf_buffer.content = file.content
    /\ (pc \in {"processed", "stored"} /\ arg.password # PyNone)
          => arg.content = file.content

=============================================================================
